---- MODULE Spec2Model ----
(***************************************************************************)
(* Rank-augmented skip lists of github.com/houz42/abstract/skiplists.       *)
(*                                                                         *)
(* Nodes live in a heap `mem` (node id -> node); a list handle holds the    *)
(* head id, the level and the size.  Level l of the source (0-based) is     *)
(* index l+1 of the TLA+ sequences `next` and `width`.                      *)
(***************************************************************************)
EXTENDS Integers, Sequences, FiniteSets, TLC

VARIABLES mem, l, abs, dups, last

vars == <<mem, l, abs, dups, last>>

\* ------------------------------------------------------------------ bounds

\* keys are 0..MaxKey (0 is the key of Go's zero value)
MaxKey == 2

\* payloads are 0..MaxTag: the part of a value the comparator does not look at
MaxTag == 1

\* ------------------------------------------------------- values and order

\* width of the random word whose trailing zeros are counted
WordBits == 64

Nil == -1

\* a pointer to a node the list cannot get at any more
Gone == Nil - 1

HeadId == 0

\* the values the calls are made with: one per key, and for key 1 also the
\* values that differ from it only in the payload
Vals == {v \in [k : 0..MaxKey, t : 0..MaxTag] : v.t = 0 \/ v.k = 1}

\* `var v V`: the zero value
Zero == [k |-> 0, t |-> 0]

\* a three-way comparator that inspects one field of a composite value
Cmp(a, b) == IF a.k < b.k THEN -1 ELSE IF a.k > b.k THEN 1 ELSE 0

Min(a, b) == IF a < b THEN a ELSE b

RECURSIVE Rep(_, _)
\* make([]T, n) filled with x
Rep(n, x) == IF n <= 0 THEN <<>> ELSE Append(Rep(n - 1, x), x)

RECURSIVE BitLen(_)
\* bits.Len64
BitLen(n) == IF n = 0 THEN 0 ELSE 1 + BitLen(n \div 2)

\* ------------------------------------------------------------------- heap

\* &node{...}: the address of a new node is one not in use
NewId(m) == CHOOSE i \in 1..Cardinality(DOMAIN m) : i \notin DOMAIN m

RECURSIVE Chain(_, _, _, _)
\* the nodes after `node` on the level-`level` chain, at most `fuel` of them
Chain(m, node, level, fuel) ==
  LET nx == m[node].next[level + 1]
  IN IF nx = Nil \/ fuel = 0 THEN <<>>
     ELSE <<nx>> \o Chain(m, nx, level, fuel - 1)

RECURSIVE Sorted(_)
\* the elements of a set of numbers, ascending
Sorted(S) ==
  IF S = {} THEN <<>>
  ELSE LET x == CHOOSE y \in S : \A z \in S : y <= z
       IN <<x>> \o Sorted(S \ {x})

Index(seq, x) == CHOOSE i \in 1..Len(seq) : seq[i] = x

RECURSIVE MapSeq(_, _)
MapSeq(seq, f) ==
  IF seq = <<>> THEN <<>> ELSE <<f[seq[1]]>> \o MapSeq(Tail(seq), f)

RECURSIVE Heap(_, _)
\* the heap holding cells[i] at address i - 1
Heap(cells, n) ==
  IF n = 0 THEN <<>> ELSE Heap(cells, n - 1) @@ ((n - 1) :> cells[n])

Range(seq) == {seq[i] : i \in 1..Len(seq)}

\* the nodes the list can still get at: the head and the nodes on its chains
InReach(h, m) ==
  {h.head} \cup UNION {Range(Chain(m, h.head, lv, Cardinality(DOMAIN m))) :
                         lv \in 0..(h.level - 1)}

\* Addresses carry no meaning beyond identity, and what the list cannot get at
\* any more is garbage: the nodes in reach are renumbered (the head 0, then the
\* level-0 chain in order, then the others), and a pointer that an entry off
\* the chains still holds to a node out of reach becomes Gone.  Following a
\* Gone pointer is an error of the model, so no operation does.
Collect(h, m) ==
  LET live == InReach(h, m)
      chain == Chain(m, h.head, 0, Cardinality(live))
      inChain == Range(chain)
      order == <<h.head>> \o chain \o Sorted(live \ (inChain \cup {h.head}))
      to == [n \in DOMAIN m \cup {Nil, Gone} |->
               IF n = Nil THEN Nil
               ELSE IF n \in live THEN Index(order, n) - 1
               ELSE Gone]
      cells == [i \in 1..Len(order) |->
                  [val |-> m[order[i]].val,
                   width |-> m[order[i]].width,
                   next |-> MapSeq(m[order[i]].next, to)]]
  IN Heap(cells, Len(order))

\* -------------------------------------------- Insert/Delete variant: New

NewFunc ==
  [h |-> [head |-> HeadId, level |-> 1, size |-> 0],
   m |-> (HeadId :> [val |-> Zero, width |-> <<0>>, next |-> <<Nil>>])]

SlLen(h) == h.size

bestEntryLevel(h) == BitLen(h.size + 1)

\* heights counted from the random word with no limit from the size
randomLevelFree(h) == {tz + 1 : tz \in 0..WordBits}

\* the heights randomLevel can return for a list of this size, over all random words
randomLevel(h) == {Min(tz, BitLen(h.size + 1)) + 1 : tz \in 0..WordBits}

\* ----------------------------------------------------------------- Search

RECURSIVE SearchWalk(_, _, _, _)
SearchWalk(m, node, level, val) ==
  LET nx == m[node].next[level + 1]
  IN IF nx # Nil /\ Cmp(m[nx].val, val) < 0
       THEN SearchWalk(m, nx, level, val)
       ELSE node

\* SearchDescend that walks the entry level only (seeded fault)
SearchDescendTop(m, node, level, val) ==
  IF level < 0 THEN node ELSE SearchWalk(m, node, level, val)


RECURSIVE SearchDescend(_, _, _, _)
SearchDescend(m, node, level, val) ==
  IF level < 0 THEN node
  ELSE SearchDescend(m, SearchWalk(m, node, level, val), level - 1, val)

\* SearchFrom without the final comparison (seeded fault)
SearchFromAny(h, m, val, entry) ==
  LET node == m[SearchDescend(m, h.head, entry, val)].next[1]
  IN IF node = Nil
       THEN [val |-> Zero, ok |-> FALSE]
       ELSE [val |-> m[node].val, ok |-> TRUE]

SearchFrom(h, m, val, entry) ==
  LET node == m[SearchDescend(m, h.head, entry, val)].next[1]
  IN IF node = Nil \/ Cmp(m[node].val, val) # 0
       THEN [val |-> Zero, ok |-> FALSE]
       ELSE [val |-> m[node].val, ok |-> TRUE]

\* SearchEntry without the limit of the head's levels (seeded fault)
SearchEntryBest(h) == bestEntryLevel(h)

\* the level Search starts its descent at
SearchEntry(h) == Min(h.level - 1, bestEntryLevel(h))

Search(h, m, val) == SearchFrom(h, m, val, SearchEntry(h))

\* ----------------------------------------------------------------- Insert

RECURSIVE InsertWalkPast(_, _, _, _, _)
\* InsertWalk that also passes the values equal to val (seeded fault)
InsertWalkPast(m, nd, level, val, jump) ==
  LET nx == m[nd].next[level + 1]
  IN IF nx # Nil /\ Cmp(m[nx].val, val) <= 0
       THEN InsertWalkPast(m, nx, level, val, jump + m[nd].width[level + 1])
       ELSE [nd |-> nd, jump |-> jump]

RECURSIVE InsertWalk(_, _, _, _, _)
InsertWalk(m, nd, level, val, jump) ==
  LET nx == m[nd].next[level + 1]
  IN IF nx # Nil /\ Cmp(m[nx].val, val) < 0
       THEN InsertWalk(m, nx, level, val, jump + m[nd].width[level + 1])
       ELSE [nd |-> nd, jump |-> jump]

RECURSIVE InsertDescend(_, _, _, _, _, _)
InsertDescend(m, nd, level, val, updates, jumps) ==
  IF level < 0 THEN [nd |-> nd, updates |-> updates, jumps |-> jumps]
  ELSE LET w == InsertWalk(m, nd, level, val, 0)
       IN InsertDescend(m, w.nd, level - 1, val,
                        [updates EXCEPT ![level + 1] = w.nd],
                        [jumps EXCEPT ![level + 1] = w.jump])

\* InsertLeft that leaves out the nodes walked over at the level below (seeded fault)
InsertLeftNear(m, updates, jumps, level) == m[updates[level]].width[level]


\* left part of the split jump at a level >= 1
InsertLeft(m, updates, jumps, level) ==
  m[updates[level]].width[level] + jumps[level]

RECURSIVE InsertSpliceOld(_, _, _, _, _, _)
\* InsertSplice that links the node at level 0 only (seeded fault)
InsertSpliceOld(m, node, updates, jumps, level, newLevel) ==
  IF level >= 1 THEN m
  ELSE [m EXCEPT ![node].next[1] = m[updates[1]].next[1],
                 ![updates[1]].next[1] = node,
                 ![node].width[1] = 1]

RECURSIVE InsertSplice(_, _, _, _, _, _)
InsertSplice(m, node, updates, jumps, level, newLevel) ==
  IF level >= newLevel THEN m
  ELSE LET u == updates[level + 1]
           m1 == [m EXCEPT ![node].next[level + 1] = m[u].next[level + 1],
                           ![u].next[level + 1] = node]
           m2 == IF level = 0
                   THEN [m1 EXCEPT ![node].width[1] = 1]
                   ELSE LET left == InsertLeft(m1, updates, jumps, level)
                        IN [m1 EXCEPT ![node].width[level + 1] =
                                          m1[u].width[level + 1] - left + 1,
                                      ![u].width[level + 1] = left]
       IN InsertSplice(m2, node, updates, jumps, level + 1, newLevel)

\* InsertBump that leaves the widths above the new node alone (seeded fault)
InsertBumpNone(m, updates, level, top) == m

RECURSIVE InsertBumpTwo(_, _, _, _)
\* InsertBump that adds 2 (seeded fault)
InsertBumpTwo(m, updates, level, top) ==
  IF level >= top THEN m
  ELSE InsertBumpTwo([m EXCEPT ![updates[level + 1]].width[level + 1] = @ + 2],
                     updates, level + 1, top)

RECURSIVE InsertBump(_, _, _, _)
InsertBump(m, updates, level, top) ==
  IF level >= top THEN m
  ELSE InsertBump([m EXCEPT ![updates[level + 1]].width[level + 1] = @ + 1],
                  updates, level + 1, top)

\* Upsert that keeps the old value (seeded fault)
UpsertKeep(m, nd, val) == m

\* an equal value is stored in node nd: overwrite it in place
Upsert(m, nd, val) == [m EXCEPT ![nd].val = val]

\* newLevel is the height randomLevel returns when a node is created
Insert(h, m, val, newLevel) ==
  LET d == InsertDescend(m, h.head, h.level - 1, val, Rep(h.level, Nil), Rep(h.level, 0))
      nd == m[d.nd].next[1]
  IN IF nd # Nil /\ Cmp(m[nd].val, val) = 0
       THEN [h |-> h, m |-> Upsert(m, nd, val), fresh |-> FALSE]
       ELSE
         LET more == newLevel - h.level
             grow == more > 0
             upd == IF grow THEN d.updates \o Rep(more, h.head) ELSE d.updates
             jmp == IF grow THEN d.jumps \o Rep(more, 0) ELSE d.jumps
             grown == IF grow
                        THEN [m EXCEPT ![h.head].next = @ \o Rep(more, Nil),
                                       ![h.head].width = @ \o Rep(more, h.size)]
                        ELSE m
             top == IF grow THEN newLevel ELSE h.level
             node == NewId(grown)
             made == grown @@ (node :> [val |-> val, width |-> Rep(newLevel, 0),
                                        next |-> Rep(newLevel, Nil)])
             spliced == InsertSplice(made, node, upd, jmp, 0, newLevel)
             bumped == InsertBump(spliced, upd, newLevel, top)
             h1 == [h EXCEPT !.level = top, !.size = @ + 1]
         IN [h |-> h1, m |-> Collect(h1, bumped), fresh |-> TRUE]

\* ----------------------------------------------------------------- Delete

RECURSIVE WalkPast(_, _, _, _)
\* SearchWalk that also passes the values equal to val (seeded fault)
WalkPast(m, node, level, val) ==
  LET nx == m[node].next[level + 1]
  IN IF nx # Nil /\ Cmp(m[nx].val, val) <= 0
       THEN WalkPast(m, nx, level, val)
       ELSE node

RECURSIVE DeleteDescendPast(_, _, _, _, _)
\* DeleteDescend on WalkPast (seeded fault)
DeleteDescendPast(m, node, level, val, updates) ==
  IF level < 0 THEN [node |-> node, updates |-> updates]
  ELSE LET nd == WalkPast(m, node, level, val)
       IN DeleteDescendPast(m, nd, level - 1, val, [updates EXCEPT ![level + 1] = nd])

RECURSIVE DeleteDescend(_, _, _, _, _)
DeleteDescend(m, node, level, val, updates) ==
  IF level < 0 THEN [node |-> node, updates |-> updates]
  ELSE LET nd == SearchWalk(m, node, level, val)
       IN DeleteDescend(m, nd, level - 1, val, [updates EXCEPT ![level + 1] = nd])

RECURSIVE UnlinkLow(_, _, _, _, _)
\* Unlink that takes the node out of the level-0 chain only (seeded fault)
UnlinkLow(m, node, updates, level, top) ==
  IF level >= top THEN m
  ELSE LET u == updates[level + 1]
           m1 == IF level = 0 /\ m[u].next[level + 1] = node
                   THEN [m EXCEPT ![u].width[level + 1] = @ + m[node].width[level + 1] - 1,
                                  ![u].next[level + 1] = m[node].next[level + 1]]
                   ELSE [m EXCEPT ![u].width[level + 1] = @ - 1]
       IN UnlinkLow(m1, node, updates, level + 1, top)

RECURSIVE Unlink(_, _, _, _, _)
Unlink(m, node, updates, level, top) ==
  IF level >= top THEN m
  ELSE LET u == updates[level + 1]
           m1 == IF m[u].next[level + 1] = node
                   THEN [m EXCEPT ![u].width[level + 1] = @ + m[node].width[level + 1] - 1,
                                  ![u].next[level + 1] = m[node].next[level + 1]]
                   ELSE [m EXCEPT ![u].width[level + 1] = @ - 1]
       IN Unlink(m1, node, updates, level + 1, top)

\* TrimLevel that drops no level (seeded fault)
TrimLevelNot(m, h, level) == level

RECURSIVE TrimLevel(_, _, _)
TrimLevel(m, h, level) ==
  IF level > 1 /\ m[h.head].next[level] = Nil THEN TrimLevel(m, h, level - 1) ELSE level

\* Remove that forgets to count (seeded fault)
RemoveNoCount(h, m, node, updates) ==
  LET m1 == Unlink(m, node, updates, 0, h.level)
      lv == TrimLevel(m1, h, h.level)
      m2 == [m1 EXCEPT ![h.head].next = SubSeq(@, 1, lv),
                       ![h.head].width = SubSeq(@, 1, lv)]
      h1 == [h EXCEPT !.level = lv]
  IN [h |-> h1, m |-> Collect(h1, m2)]

\* unlink `node` at every level, drop the empty top levels, count one element less
Remove(h, m, node, updates) ==
  LET m1 == Unlink(m, node, updates, 0, h.level)
      lv == TrimLevel(m1, h, h.level)
      m2 == [m1 EXCEPT ![h.head].next = SubSeq(@, 1, lv),
                       ![h.head].width = SubSeq(@, 1, lv)]
      h1 == [h EXCEPT !.level = lv, !.size = @ - 1]
  IN [h |-> h1, m |-> Collect(h1, m2)]

\* Delete that removes the node it stops at, equal or not (seeded fault)
DeleteAny(h, m, val) ==
  LET d == DeleteDescend(m, h.head, h.level - 1, val, Rep(h.level, Nil))
      node == m[d.node].next[1]
  IN IF node = Nil
       THEN [h |-> h, m |-> m, found |-> FALSE]
       ELSE Remove(h, m, node, d.updates) @@ [found |-> TRUE]

Delete(h, m, val) ==
  LET d == DeleteDescend(m, h.head, h.level - 1, val, Rep(h.level, Nil))
      node == m[d.node].next[1]
  IN IF node = Nil \/ Cmp(m[node].val, val) # 0
       THEN [h |-> h, m |-> m, found |-> FALSE]
       ELSE Remove(h, m, node, d.updates) @@ [found |-> TRUE]

\* --------------------------------------------------------------------- At

RECURSIVE AtWalkShort(_, _, _, _, _)
\* AtWalk that stops one node early (seeded fault)
AtWalkShort(m, node, pos, level, at) ==
  IF node # Nil /\ pos + m[node].width[level + 1] < at
    THEN AtWalkShort(m, m[node].next[level + 1], pos + m[node].width[level + 1], level, at)
    ELSE [node |-> node, pos |-> pos]

RECURSIVE AtWalk(_, _, _, _, _)
AtWalk(m, node, pos, level, at) ==
  IF node # Nil /\ pos + m[node].width[level + 1] <= at
    THEN AtWalk(m, m[node].next[level + 1], pos + m[node].width[level + 1], level, at)
    ELSE [node |-> node, pos |-> pos]

RECURSIVE AtDescend(_, _, _, _, _)
AtDescend(m, node, pos, level, at) ==
  IF level < 0 THEN node
  ELSE LET w == AtWalk(m, node, pos, level, at)
       IN AtDescend(m, w.node, w.pos, level - 1, at)

\* At whose index check lets Len() through (seeded fault)
AtLoose(h, m, at) ==
  IF at < 0 \/ at > h.size THEN [panic |-> "range", val |-> Zero]
  ELSE LET node == AtDescend(m, h.head, 0, h.level - 1, at)
       IN IF node = Nil THEN [panic |-> "nil", val |-> Zero]
          ELSE [panic |-> "none", val |-> m[node].val]

\* panic: "range" is the index check, "nil" a nil pointer dereference
At(h, m, at) ==
  IF at < 0 \/ at >= h.size THEN [panic |-> "range", val |-> Zero]
  ELSE LET node == AtDescend(m, h.head, 0, h.level - 1, at)
       IN IF node = Nil THEN [panic |-> "nil", val |-> Zero]
          ELSE [panic |-> "none", val |-> m[node].val]

\* --------------------------------------------------------------- DeleteAt

RECURSIVE DeleteAtWalkFar(_, _, _, _, _)
\* DeleteAtWalk that walks one node too far (seeded fault)
DeleteAtWalkFar(m, node, pos, level, at) ==
  IF node # Nil /\ pos + m[node].width[level + 1] <= at
    THEN DeleteAtWalkFar(m, m[node].next[level + 1], pos + m[node].width[level + 1], level, at)
    ELSE [node |-> node, pos |-> pos]

RECURSIVE DeleteAtWalk(_, _, _, _, _)
DeleteAtWalk(m, node, pos, level, at) ==
  IF node # Nil /\ pos + m[node].width[level + 1] < at
    THEN DeleteAtWalk(m, m[node].next[level + 1], pos + m[node].width[level + 1], level, at)
    ELSE [node |-> node, pos |-> pos]

RECURSIVE DeleteAtDescendStart(_, _, _, _, _, _)
\* DeleteAtDescend that records where each level's walk starts (seeded fault)
DeleteAtDescendStart(m, node, pos, level, at, updates) ==
  IF level < 0 THEN [node |-> node, updates |-> updates]
  ELSE LET w == DeleteAtWalk(m, node, pos, level, at)
       IN DeleteAtDescendStart(m, w.node, w.pos, level - 1, at,
                               [updates EXCEPT ![level + 1] = node])


RECURSIVE DeleteAtDescend(_, _, _, _, _, _)
DeleteAtDescend(m, node, pos, level, at, updates) ==
  IF level < 0 THEN [node |-> node, updates |-> updates]
  ELSE LET w == DeleteAtWalk(m, node, pos, level, at)
       IN DeleteAtDescend(m, w.node, w.pos, level - 1, at,
                          [updates EXCEPT ![level + 1] = w.node])

\* DeleteAt whose index check lets Len() through (seeded fault)
DeleteAtLoose(h, m, at) ==
  IF at < 0 \/ at > h.size THEN [h |-> h, m |-> m, panic |-> "range"]
  ELSE LET d == DeleteAtDescend(m, h.head, 0, h.level - 1, at, Rep(h.level, Nil))
       IN IF d.node = Nil \/ m[d.node].next[1] = Nil
            THEN [h |-> h, m |-> m, panic |-> "nil"]
            ELSE Remove(h, m, m[d.node].next[1], d.updates) @@ [panic |-> "none"]

DeleteAt(h, m, at) ==
  IF at < 0 \/ at >= h.size THEN [h |-> h, m |-> m, panic |-> "range"]
  ELSE LET d == DeleteAtDescend(m, h.head, 0, h.level - 1, at, Rep(h.level, Nil))
       IN IF d.node = Nil \/ m[d.node].next[1] = Nil
            THEN [h |-> h, m |-> m, panic |-> "nil"]
            ELSE Remove(h, m, m[d.node].next[1], d.updates) @@ [panic |-> "none"]

\* the DeleteAt that returns the removed node's value
DeleteAtV(h, m, i) ==
  IF i < 0 \/ i >= h.size THEN [h |-> h, m |-> m, panic |-> "range", ret |-> Zero]
  ELSE LET d == DeleteAtDescend(m, h.head, 0, h.level - 1, i, Rep(h.level, Nil))
       IN IF d.node = Nil \/ m[d.node].next[1] = Nil
            THEN [h |-> h, m |-> m, panic |-> "nil", ret |-> Zero]
            ELSE LET node == m[d.node].next[1]
                 IN Remove(h, m, node, d.updates)
                      @@ [panic |-> "none", ret |-> m[node].val]

\* ---------------------------------------------------------- keyed variant

\* A node of the keyed list holds a key and a val: the k and the t of the
\* node's value here.  New, Insert, Delete and DeleteAt are, statement by
\* statement, those of the Insert/Delete variant with `key <` and `key ==` for
\* the comparator, and Delete returns nothing.

KNew == NewFunc

KInsert(h, m, key, val, newLevel) == Insert(h, m, [k |-> key, t |-> val], newLevel)

KDelete(h, m, key) == Delete(h, m, [k |-> key, t |-> 0])

KDeleteAt(h, m, at) == DeleteAt(h, m, at)

RECURSIVE KAtDescend(_, _, _, _, _)
\* the node At returns: the one a level's walk ends at with pos = at, or the
\* one the walk of level 0 ends at
KAtDescend(m, node, pos, level, at) ==
  IF level < 0 THEN node
  ELSE LET w == AtWalk(m, node, pos, level, at)
       IN IF w.pos = at THEN w.node
          ELSE KAtDescend(m, w.node, w.pos, level - 1, at)

\* panic: "range" is the index check, "nil" a nil pointer dereference
KAt(h, m, at) ==
  IF at < 0 \/ at >= h.size THEN [panic |-> "range", key |-> 0, val |-> 0]
  ELSE LET node == KAtDescend(m, h.head, 0, h.level - 1, at)
       IN IF node = Nil THEN [panic |-> "nil", key |-> 0, val |-> 0]
          ELSE [panic |-> "none", key |-> m[node].val.k, val |-> m[node].val.t]

\* ------------------------------------------- Set/Unset variant: options

defaultOptions == [LogP |-> 1, SizeHint |-> 0, maxLevel |-> 0]

maxLevel(logP, size) == BitLen(size + 1) \div logP

\* the option SetLogP(logP), applied to the options o
SetLogP(o, logP) == [o EXCEPT !.LogP = logP, !.maxLevel = maxLevel(logP, o.SizeHint)]

NewFunc2(opt) ==
  [h |-> [head |-> HeadId, level |-> 1, size |-> 0, opt |-> opt],
   m |-> (HeadId :> [val |-> Zero, width |-> <<0>>, next |-> <<Nil>>])]

\* the heights randomLevel can return, over all random words
randomLevel2(h) ==
  LET level == IF h.opt.SizeHint < h.size
                 THEN maxLevel(h.opt.LogP, h.size)
                 ELSE h.opt.maxLevel
  IN {(tz \div h.opt.LogP) + 1 : tz \in 0..Min(level * h.opt.LogP, WordBits)}

\* -------------------------------------------------------------------- Get

RECURSIVE GetWalkPast(_, _, _, _)
\* GetWalk that also passes the values equal to val (seeded fault)
GetWalkPast(m, node, level, val) ==
  LET nx == m[node].next[level + 1]
  IN IF nx # Nil /\ Cmp(m[nx].val, val) <= 0
       THEN GetWalkPast(m, nx, level, val)
       ELSE node

RECURSIVE GetWalk(_, _, _, _)
GetWalk(m, node, level, val) ==
  LET nx == m[node].next[level + 1]
  IN IF nx # Nil /\ Cmp(m[nx].val, val) < 0
       THEN GetWalk(m, nx, level, val)
       ELSE node

RECURSIVE GetDescend(_, _, _, _)
\* the node CHECK looks at
GetDescend(m, node, level, val) ==
  IF level < 0 THEN m[node].next[1]
  ELSE LET nd == GetWalk(m, node, level, val)
           nx == m[nd].next[level + 1]
       IN IF nx # Nil /\ Cmp(m[nx].val, val) = 0
            THEN nx
            ELSE GetDescend(m, nd, level - 1, val)

Get(h, m, val) ==
  LET node == GetDescend(m, h.head, Min(h.level, maxLevel(h.opt.LogP, h.size)) - 1, val)
  IN IF node = Nil \/ Cmp(m[node].val, val) # 0
       THEN [val |-> Zero, ok |-> FALSE]
       ELSE [val |-> m[node].val, ok |-> TRUE]

\* -------------------------------------------------------------------- Set

RECURSIVE SetWalk(_, _, _, _, _)
SetWalk(m, nd, level, val, pos) ==
  LET nx == m[nd].next[level + 1]
  IN IF nx # Nil /\ Cmp(m[nx].val, val) <= 0
       THEN SetWalk(m, nx, level, val, pos + m[nd].width[level + 1])
       ELSE [nd |-> nd, pos |-> pos]

RECURSIVE SetDescend(_, _, _, _, _, _, _)
SetDescend(m, nd, level, val, pos, updates, jumps) ==
  IF level < 0 THEN [nd |-> nd, pos |-> pos, updates |-> updates, jumps |-> jumps]
  ELSE LET w == SetWalk(m, nd, level, val, pos)
       IN SetDescend(m, w.nd, level - 1, val, w.pos,
                     [updates EXCEPT ![level + 1] = w.nd],
                     [jumps EXCEPT ![level + 1] = w.pos])

RECURSIVE SetNewLevels(_, _, _, _, _, _, _)
\* the levels the list did not have: head points at the new node
SetNewLevels(m, h, newNode, pos, size, level, newLevel) ==
  IF level >= newLevel THEN m
  ELSE SetNewLevels([m EXCEPT ![h.head].next[level + 1] = newNode,
                              ![h.head].width[level + 1] = pos + 1,
                              ![newNode].width[level + 1] = size - pos],
                    h, newNode, pos, size, level + 1, newLevel)

RECURSIVE SetSplice(_, _, _, _, _, _, _)
SetSplice(m, newNode, updates, jumps, pos, level, top) ==
  IF level >= top THEN m
  ELSE LET u == updates[level + 1]
           left == pos - jumps[level + 1]
           linked == [m EXCEPT ![newNode].next[level + 1] = m[u].next[level + 1],
                               ![u].next[level + 1] = newNode]
           fixed == [linked EXCEPT ![newNode].width[level + 1] =
                                       linked[u].width[level + 1] - left + 1,
                                   ![u].width[level + 1] = left]
       IN SetSplice(fixed, newNode, updates, jumps, pos, level + 1, top)

\* SetBump that leaves the widths above the new node alone (seeded fault)
SetBumpNone(m, updates, level, top) == m

RECURSIVE SetBump(_, _, _, _)
SetBump(m, updates, level, top) ==
  IF level >= top THEN m
  ELSE SetBump([m EXCEPT ![updates[level + 1]].width[level + 1] = @ + 1],
               updates, level + 1, top)

\* the rest of Set when no stored element was found equal to val: d is what
\* the descent left (nd, pos, updates, jumps), newLevel the height randomLevel
\* returns for the new node
SetLink(h, m, val, newLevel, d) ==
  LET newNode == NewId(m)
      made == m @@ (newNode :> [val |-> val, width |-> Rep(newLevel, 0),
                                next |-> Rep(newLevel, Nil)])
      pos == d.pos + 1
      more == newLevel - h.level
      grow == more > 0
      grown == IF grow
                 THEN SetNewLevels(
                        [made EXCEPT ![h.head].next =
                                         SubSeq(@, 1, h.level) \o Rep(more, Nil),
                                     ![h.head].width =
                                         SubSeq(@, 1, h.level) \o Rep(more, 0)],
                        h, newNode, pos, h.size, h.level, newLevel)
                 ELSE made
      top == IF grow THEN newLevel ELSE h.level
      spliced == SetSplice(grown, newNode, d.updates, d.jumps, pos, 0,
                           Min(newLevel, Len(d.updates)))
      bumped == SetBump(spliced, d.updates, newLevel, Len(d.updates))
      h1 == [h EXCEPT !.level = top, !.size = @ + 1]
  IN [h |-> h1, m |-> Collect(h1, bumped), fresh |-> TRUE]

Set(h, m, val, newLevel) ==
  LET d == SetDescend(m, h.head, h.level - 1, val, 0 - 1, Rep(h.level, Nil), Rep(h.level, 0))
      nx == m[d.nd].next[1]
  IN IF nx # Nil /\ Cmp(m[nx].val, val) = 0
       THEN [h |-> h, m |-> [m EXCEPT ![d.nd].val = val], fresh |-> FALSE]
       ELSE SetLink(h, m, val, newLevel, d)

\* ------------------------------------------------------------------ Unset

RECURSIVE UnsetDescend(_, _, _, _, _)
UnsetDescend(m, node, level, val, updates) ==
  IF level < 0 THEN [node |-> node, updates |-> updates]
  ELSE LET nd == GetWalk(m, node, level, val)
       IN UnsetDescend(m, nd, level - 1, val, [updates EXCEPT ![level + 1] = nd])

RECURSIVE UnsetLoopFlat(_, _, _, _, _)
\* UnsetLoop that leaves the width of a jump over the node alone (seeded fault)
UnsetLoopFlat(m, h, node, updates, level) ==
  IF level >= h.level THEN [h |-> h, m |-> m]
  ELSE LET u == updates[level + 1]
           cut == IF m[u].next[level + 1] = node
                    THEN [m EXCEPT ![u].width[level + 1] =
                                       @ + m[node].width[level + 1] - 1,
                                   ![u].next[level + 1] = m[node].next[level + 1]]
                    ELSE m
       IN IF level > 1 /\ u = h.head /\ cut[h.head].next[level + 1] = Nil
            THEN [h |-> [h EXCEPT !.level = level - 1], m |-> cut]
            ELSE UnsetLoopFlat(cut, h, node, updates, level + 1)

RECURSIVE UnsetLoop(_, _, _, _, _)
\* unlinks level by level; stops at the first level > 1 that the head now finds empty
UnsetLoop(m, h, node, updates, level) ==
  IF level >= h.level THEN [h |-> h, m |-> m]
  ELSE LET u == updates[level + 1]
           cut == IF m[u].next[level + 1] = node
                    THEN [m EXCEPT ![u].width[level + 1] =
                                       @ + m[node].width[level + 1] - 1,
                                   ![u].next[level + 1] = m[node].next[level + 1]]
                    ELSE [m EXCEPT ![u].width[level + 1] = @ - 1]
       IN IF level > 1 /\ u = h.head /\ cut[h.head].next[level + 1] = Nil
            THEN [h |-> [h EXCEPT !.level = level - 1], m |-> cut]
            ELSE UnsetLoop(cut, h, node, updates, level + 1)

Unset(h, m, val) ==
  LET d == UnsetDescend(m, h.head, h.level - 1, val, Rep(h.level, Nil))
      node == m[d.node].next[1]
  IN IF node = Nil \/ Cmp(m[node].val, val) # 0
       THEN [h |-> h, m |-> m, found |-> FALSE]
       ELSE LET r == UnsetLoop(m, h, node, d.updates, 0)
                h1 == [r.h EXCEPT !.size = @ - 1]
            IN [h |-> h1, m |-> Collect(h1, r.m), found |-> TRUE]

\* --------------------------------------------------------------------- At

RECURSIVE At2Walk(_, _, _, _, _)
At2Walk(m, node, pos, level, i) ==
  IF m[node].next[level + 1] # Nil /\ pos + m[node].width[level + 1] <= i
    THEN At2Walk(m, m[node].next[level + 1], pos + m[node].width[level + 1], level, i)
    ELSE [node |-> node, pos |-> pos]

RECURSIVE At2Descend(_, _, _, _, _)
At2Descend(m, node, pos, level, i) ==
  IF level < 0 THEN node
  ELSE LET w == At2Walk(m, node, pos, level, i)
       IN IF w.pos = i THEN w.node ELSE At2Descend(m, w.node, w.pos, level - 1, i)

At2(h, m, i) ==
  IF i < 0 \/ i >= h.size THEN [panic |-> "range", val |-> Zero]
  ELSE [panic |-> "none", val |-> m[At2Descend(m, h.head, 0 - 1, h.level - 1, i)].val]

\* --------------------------------------------------------------- UpdateAt

RECURSIVE UpdateAtWalk(_, _, _, _, _)
UpdateAtWalk(m, node, pos, level, i) ==
  IF node # Nil /\ pos + m[node].width[level + 1] < i
    THEN UpdateAtWalk(m, m[node].next[level + 1], pos + m[node].width[level + 1], level, i)
    ELSE [node |-> node, pos |-> pos]

RECURSIVE UpdateAtDescend(_, _, _, _, _)
\* the node the loops end on: the one before index i
UpdateAtDescend(m, node, pos, level, i) ==
  IF level < 0 THEN node
  ELSE LET w == UpdateAtWalk(m, node, pos, level, i)
       IN UpdateAtDescend(m, w.node, w.pos, level - 1, i)

\* UpdateAt that writes to the node before the target (seeded fault)
UpdateAtBefore(h, m, i, val) ==
  IF i < 0 \/ i >= h.size THEN [m |-> m, panic |-> "range"]
  ELSE LET node == UpdateAtDescend(m, h.head, 0 - 1, h.level - 1, i)
       IN IF node = Nil \/ m[node].next[1] = Nil THEN [m |-> m, panic |-> "nil"]
          ELSE [m |-> [m EXCEPT ![node].val = val], panic |-> "none"]

\* panic: "range" is the index check, "previous" and "next" the two ordering
\* panics, "nil" a nil pointer dereference
UpdateAt2(h, m, i, val) ==
  IF i < 0 \/ i >= h.size THEN [m |-> m, panic |-> "range"]
  ELSE LET node == UpdateAtDescend(m, h.head, 0 - 1, h.level - 1, i)
       IN IF node = Nil THEN [m |-> m, panic |-> "nil"]
          ELSE LET target == m[node].next[1]
               IN IF Cmp(m[node].val, val) >= 0 THEN [m |-> m, panic |-> "previous"]
                  ELSE IF target = Nil THEN [m |-> m, panic |-> "nil"]
                  ELSE IF m[target].next[1] # Nil /\ Cmp(val, m[m[target].next[1]].val) >= 0
                    THEN [m |-> m, panic |-> "next"]
                  ELSE [m |-> [m EXCEPT ![target].val = val], panic |-> "none"]

\* --------------------------------------------------------------- RemoveAt

RECURSIVE RemoveAtWalkFar(_, _, _, _, _)
\* RemoveAtWalk that walks one node too far (seeded fault)
RemoveAtWalkFar(m, node, pos, level, i) ==
  IF m[node].next[level + 1] # Nil /\ pos + m[node].width[level + 1] <= i
    THEN RemoveAtWalkFar(m, m[node].next[level + 1], pos + m[node].width[level + 1], level, i)
    ELSE [node |-> node, pos |-> pos]

RECURSIVE RemoveAtWalk(_, _, _, _, _)
RemoveAtWalk(m, node, pos, level, i) ==
  IF m[node].next[level + 1] # Nil /\ pos + m[node].width[level + 1] < i
    THEN RemoveAtWalk(m, m[node].next[level + 1], pos + m[node].width[level + 1], level, i)
    ELSE [node |-> node, pos |-> pos]

RECURSIVE RemoveAtLoop(_, _, _, _, _, _)
\* searches and removes in one pass, top level first
RemoveAtLoop(m, h, node, pos, level, i) ==
  IF level < 0 THEN [h |-> h, m |-> m]
  ELSE LET w == RemoveAtWalk(m, node, pos, level, i)
           less == [m EXCEPT ![w.node].width[level + 1] = @ - 1]
           nx == less[w.node].next[level + 1]
           hit == nx # Nil /\ w.pos + less[w.node].width[level + 1] + 1 = i
           cut == IF hit
                    THEN [less EXCEPT ![w.node].width[level + 1] =
                                          @ + less[nx].width[level + 1],
                                      ![w.node].next[level + 1] = less[nx].next[level + 1]]
                    ELSE less
           emptied == hit /\ w.node = h.head /\ cut[w.node].next[level + 1] = Nil
           h1 == IF emptied THEN [h EXCEPT !.level = @ - 1] ELSE h
       IN RemoveAtLoop(cut, h1, w.node, w.pos, level - 1, i)

RemoveAt(h, m, i) ==
  IF i < 0 \/ i >= h.size THEN [h |-> h, m |-> m, panic |-> "range"]
  ELSE LET r == RemoveAtLoop(m, h, h.head, 0 - 1, h.level - 1, i)
           h1 == [r.h EXCEPT !.size = @ - 1]
       IN [h |-> h1, m |-> Collect(h1, r.m), panic |-> "none"]

\* -------------------------------------------------------------------- All

RECURSIVE AllLoopOn(_, _, _, _, _)
\* AllLoop that goes on after yield returned false (seeded fault)
AllLoopOn(m, node, i, stop, out) ==
  IF node = Nil THEN out
  ELSE AllLoopOn(m, m[node].next[1], i + 1, stop, Append(out, <<i, m[node].val>>))

RECURSIVE AllLoop(_, _, _, _, _)
\* out: the pairs handed to yield so far; the consumer's yield returns false
\* on its call number stop, and true on the others
AllLoop(m, node, i, stop, out) ==
  IF node = Nil THEN out
  ELSE LET called == Append(out, <<i, m[node].val>>)
       IN IF Len(called) = stop THEN called
          ELSE AllLoop(m, m[node].next[1], i + 1, stop, called)

\* ranging over sl.All() with such a consumer
All(h, m, stop) == AllLoop(m, m[h.head].next[1], 0, stop, <<>>)

\* ---------------------------------------------------------------- Reverse

\* the comparator of the list Reverse returns: func(a, b V) int { return sl.cmp(b, a) }
RevCmp(a, b) == Cmp(b, a)

\* Insert/Delete variant: the new handle has the head, level and size of sl
Reverse(h) == [head |-> h.head, level |-> h.level, size |-> h.size]

\* Search, as it runs on a list whose cmp is the reversed comparator
RECURSIVE RevSearchWalk(_, _, _, _)
RevSearchWalk(m, node, level, val) ==
  LET nx == m[node].next[level + 1]
  IN IF nx # Nil /\ RevCmp(m[nx].val, val) < 0
       THEN RevSearchWalk(m, nx, level, val)
       ELSE node

RECURSIVE RevSearchDescend(_, _, _, _)
RevSearchDescend(m, node, level, val) ==
  IF level < 0 THEN node
  ELSE RevSearchDescend(m, RevSearchWalk(m, node, level, val), level - 1, val)

RevSearch(h, m, val) ==
  LET node == m[RevSearchDescend(m, h.head, Min(h.level - 1, bestEntryLevel(h)), val)].next[1]
  IN IF node = Nil \/ RevCmp(m[node].val, val) # 0
       THEN [val |-> Zero, ok |-> FALSE]
       ELSE [val |-> m[node].val, ok |-> TRUE]

\* Options{}: the opt of a SkipList literal that does not set it
zeroOptions == [LogP |-> 0, SizeHint |-> 0, maxLevel |-> 0]

\* Set/Unset variant: the literal sets head, level, size and cmp, and not opt
Reverse2(h) == [head |-> h.head, level |-> h.level, size |-> h.size, opt |-> zeroOptions]

\* Get, as it runs on a list whose cmp is the reversed comparator
RECURSIVE RevGetWalk(_, _, _, _)
RevGetWalk(m, node, level, val) ==
  LET nx == m[node].next[level + 1]
  IN IF nx # Nil /\ RevCmp(m[nx].val, val) < 0
       THEN RevGetWalk(m, nx, level, val)
       ELSE node

RECURSIVE RevGetDescend(_, _, _, _)
RevGetDescend(m, node, level, val) ==
  IF level < 0 THEN m[node].next[1]
  ELSE LET nd == RevGetWalk(m, node, level, val)
           nx == m[nd].next[level + 1]
       IN IF nx # Nil /\ RevCmp(m[nx].val, val) = 0
            THEN nx
            ELSE RevGetDescend(m, nd, level - 1, val)

\* panic "divide": maxLevel divides by opt.LogP, an integer division by zero
\* when LogP is 0
RevGet(h, m, val) ==
  IF h.opt.LogP = 0 THEN [panic |-> "divide", val |-> Zero, ok |-> FALSE]
  ELSE LET node == RevGetDescend(m, h.head,
                                 Min(h.level, maxLevel(h.opt.LogP, h.size)) - 1, val)
       IN IF node = Nil \/ RevCmp(m[node].val, val) # 0
            THEN [panic |-> "none", val |-> Zero, ok |-> FALSE]
            ELSE [panic |-> "none", val |-> m[node].val, ok |-> TRUE]

\* Set, as it runs on a list whose cmp is the reversed comparator
RECURSIVE RevSetWalk(_, _, _, _, _)
RevSetWalk(m, nd, level, val, pos) ==
  LET nx == m[nd].next[level + 1]
  IN IF nx # Nil /\ RevCmp(m[nx].val, val) <= 0
       THEN RevSetWalk(m, nx, level, val, pos + m[nd].width[level + 1])
       ELSE [nd |-> nd, pos |-> pos]

RECURSIVE RevSetDescend(_, _, _, _, _, _, _)
RevSetDescend(m, nd, level, val, pos, updates, jumps) ==
  IF level < 0 THEN [nd |-> nd, pos |-> pos, updates |-> updates, jumps |-> jumps]
  ELSE LET w == RevSetWalk(m, nd, level, val, pos)
       IN RevSetDescend(m, w.nd, level - 1, val, w.pos,
                        [updates EXCEPT ![level + 1] = w.nd],
                        [jumps EXCEPT ![level + 1] = w.pos])

\* panic "divide": randomLevel divides by opt.LogP (directly, and in maxLevel)
RevSet(h, m, val, newLevel) ==
  LET d == RevSetDescend(m, h.head, h.level - 1, val, 0 - 1,
                         Rep(h.level, Nil), Rep(h.level, 0))
      nx == m[d.nd].next[1]
  IN IF nx # Nil /\ RevCmp(m[nx].val, val) = 0
       THEN [h |-> h, m |-> [m EXCEPT ![d.nd].val = val], panic |-> "none"]
       ELSE IF h.opt.LogP = 0 THEN [h |-> h, m |-> m, panic |-> "divide"]
       ELSE LET r == SetLink(h, m, val, newLevel, d)
            IN [h |-> r.h, m |-> r.m, panic |-> "none"]

\* ----------------------------------- a list and its view, on one head

\* The handle Reverse returns has the head of the list it was taken from and
\* a level and a size of its own.  What follows is Insert, Delete and
\* DeleteAt as they run through a handle whose level and size need not be
\* those of the head: rev says that the handle's cmp is the reversed
\* comparator.  panic: "index" is an index out of range, "range" the index
\* check of DeleteAt, "nil" a nil pointer dereference.

ViewCmp(rev, a, b) == IF rev THEN RevCmp(a, b) ELSE Cmp(a, b)

\* bits.Len64(uint64(x)): a negative x converts to a number of 64 bits
Len64(x) == IF x < 0 THEN WordBits ELSE BitLen(x)

\* the heights randomLevel can return, over all random words
ViewRandomLevel(h) == {Min(tz, Len64(h.size + 1)) + 1 : tz \in 0..WordBits}

RECURSIVE ViewInsertWalk(_, _, _, _, _, _)
ViewInsertWalk(rev, m, nd, level, val, jump) ==
  LET nx == m[nd].next[level + 1]
  IN IF nx # Nil /\ ViewCmp(rev, m[nx].val, val) < 0
       THEN ViewInsertWalk(rev, m, nx, level, val, jump + m[nd].width[level + 1])
       ELSE [nd |-> nd, jump |-> jump]

RECURSIVE ViewInsertDescend(_, _, _, _, _, _, _)
ViewInsertDescend(rev, m, nd, level, val, updates, jumps) ==
  IF level < 0 THEN [nd |-> nd, updates |-> updates, jumps |-> jumps]
  ELSE LET w == ViewInsertWalk(rev, m, nd, level, val, 0)
       IN ViewInsertDescend(rev, m, w.nd, level - 1, val,
                            [updates EXCEPT ![level + 1] = w.nd],
                            [jumps EXCEPT ![level + 1] = w.jump])

\* the head's arrays get newLevel - level more entries, whatever their length,
\* and the width entries of the levels level..newLevel-1 are set to size
ViewGrow(h, m, newLevel) ==
  LET more == newLevel - h.level
      next == m[h.head].next \o Rep(more, Nil)
      width == m[h.head].width \o Rep(more, 0)
  IN [m EXCEPT ![h.head].next = next,
               ![h.head].width = SubSeq(width, 1, h.level) \o Rep(more, h.size)
                                   \o SubSeq(width, newLevel + 1, Len(width))]

ViewInsert(h, m, rev, val, newLevel) ==
  IF h.level > Len(m[h.head].next) THEN [h |-> h, m |-> m, panic |-> "index"]
  ELSE
    LET d == ViewInsertDescend(rev, m, h.head, h.level - 1, val,
                               Rep(h.level, Nil), Rep(h.level, 0))
        nd == m[d.nd].next[1]
    IN IF nd # Nil /\ ViewCmp(rev, m[nd].val, val) = 0
         THEN [h |-> h, m |-> Upsert(m, nd, val), panic |-> "none"]
         ELSE
           LET more == newLevel - h.level
               grow == more > 0
               upd == IF grow THEN d.updates \o Rep(more, h.head) ELSE d.updates
               jmp == IF grow THEN d.jumps \o Rep(more, 0) ELSE d.jumps
               grown == IF grow THEN ViewGrow(h, m, newLevel) ELSE m
               top == IF grow THEN newLevel ELSE h.level
               node == NewId(grown)
               made == grown @@ (node :> [val |-> val, width |-> Rep(newLevel, 0),
                                          next |-> Rep(newLevel, Nil)])
               spliced == InsertSplice(made, node, upd, jmp, 0, newLevel)
               bumped == InsertBump(spliced, upd, newLevel, top)
           IN [h |-> [h EXCEPT !.level = top, !.size = @ + 1],
               m |-> bumped, panic |-> "none"]

RECURSIVE ViewWalk(_, _, _, _, _)
ViewWalk(rev, m, node, level, val) ==
  LET nx == m[node].next[level + 1]
  IN IF nx # Nil /\ ViewCmp(rev, m[nx].val, val) < 0
       THEN ViewWalk(rev, m, nx, level, val)
       ELSE node

RECURSIVE ViewDeleteDescend(_, _, _, _, _, _)
ViewDeleteDescend(rev, m, node, level, val, updates) ==
  IF level < 0 THEN [node |-> node, updates |-> updates]
  ELSE LET nd == ViewWalk(rev, m, node, level, val)
       IN ViewDeleteDescend(rev, m, nd, level - 1, val,
                            [updates EXCEPT ![level + 1] = nd])

\* unlink `node` at the handle's levels, drop the empty top levels, cut the
\* head's arrays to the handle's level, count one element less
ViewRemove(h, m, node, updates) ==
  LET m1 == Unlink(m, node, updates, 0, h.level)
      lv == TrimLevel(m1, h, h.level)
      m2 == [m1 EXCEPT ![h.head].next = SubSeq(@, 1, lv),
                       ![h.head].width = SubSeq(@, 1, lv)]
  IN [h |-> [h EXCEPT !.level = lv, !.size = @ - 1], m |-> m2, panic |-> "none"]

ViewDelete(h, m, rev, val) ==
  IF h.level > Len(m[h.head].next) THEN [h |-> h, m |-> m, panic |-> "index"]
  ELSE LET d == ViewDeleteDescend(rev, m, h.head, h.level - 1, val, Rep(h.level, Nil))
           node == m[d.node].next[1]
       IN IF node = Nil \/ ViewCmp(rev, m[node].val, val) # 0
            THEN [h |-> h, m |-> m, panic |-> "none"]
            ELSE ViewRemove(h, m, node, d.updates)

ViewDeleteAt(h, m, i) ==
  IF i < 0 \/ i >= h.size THEN [h |-> h, m |-> m, panic |-> "range"]
  ELSE IF h.level > Len(m[h.head].width) THEN [h |-> h, m |-> m, panic |-> "index"]
  ELSE LET d == DeleteAtDescend(m, h.head, 0, h.level - 1, i, Rep(h.level, Nil))
       IN IF d.node = Nil \/ m[d.node].next[1] = Nil
            THEN [h |-> h, m |-> m, panic |-> "nil"]
            ELSE ViewRemove(h, m, m[d.node].next[1], d.updates)


\* ------------------------------------------------------------------ heaps

\* The Heap under test is the handle l = [impl |-> address]; mem holds its
\* heapImpl: values, and rev, whether less is the reversed comparator.

ImplId == 0

\* less of New, func(x, y E) bool { return x < y }, and what Reverse makes of it
Less(rev, x, y) == IF rev THEN y.k < x.k ELSE x.k < y.k

\* heapImpl.Less; indexes count from 0
ImplLess(vs, rev, i, j) == Less(rev, vs[i + 1], vs[j + 1])

\* heapImpl.Swap
ImplSwap(vs, i, j) == [vs EXCEPT ![i + 1] = vs[j + 1], ![j + 1] = vs[i + 1]]

RECURSIVE up(_, _, _)
\* container/heap: i is the parent, (j - 1) / 2 rounded towards zero
up(vs, rev, j) ==
  LET i == IF j = 0 THEN 0 ELSE (j - 1) \div 2
  IN IF i = j \/ ~ImplLess(vs, rev, j, i) THEN vs
     ELSE up(ImplSwap(vs, i, j), rev, i)

\* down that sifts nothing (seeded fault)
downNot(vs, rev, i, n) == vs

RECURSIVE down(_, _, _, _)
\* container/heap: sift vs[i] down within the first n elements
down(vs, rev, i, n) ==
  LET j1 == 2 * i + 1
  IN IF j1 >= n \/ j1 < 0 THEN vs
     ELSE LET j == IF j1 + 1 < n /\ ImplLess(vs, rev, j1 + 1, j1) THEN j1 + 1 ELSE j1
          IN IF ~ImplLess(vs, rev, j, i) THEN vs
             ELSE down(ImplSwap(vs, i, j), rev, j, n)

RECURSIVE stdInitLoop(_, _, _, _)
stdInitLoop(vs, rev, i, n) ==
  IF i < 0 THEN vs ELSE stdInitLoop(down(vs, rev, i, n), rev, i - 1, n)

\* container/heap.Init
stdInit(vs, rev) == stdInitLoop(vs, rev, (Len(vs) \div 2) - 1, Len(vs))

RECURSIVE Copy(_, _, _)
\* copy(dst, src): the first min(len(dst), len(src)) elements; n counts them
Copy(dst, src, n) ==
  IF n = 0 THEN dst ELSE [Copy(dst, src, n - 1) EXCEPT ![n] = src[n]]

HeapNewFunc(values) ==
  [h |-> [impl |-> ImplId],
   m |-> (ImplId :> [values |-> stdInit(values, FALSE), rev |-> FALSE])]

HeapLen(h, m) == Len(m[h.impl].values)

\* heap.Push: heapImpl.Push appends, then up from the last index
HeapPush(h, m, x) ==
  LET vs == Append(m[h.impl].values, x)
  IN [m EXCEPT ![h.impl].values = up(vs, m[h.impl].rev, Len(vs) - 1)]

\* heap.Pop: Swap(0, n), down(0, n), then heapImpl.Pop takes the last element;
\* on an empty heap Swap indexes values[0]: panic "range"
HeapPop(h, m) ==
  LET vs == m[h.impl].values
      n == Len(vs) - 1
  IN IF n < 0 THEN [m |-> m, ret |-> Zero, panic |-> "range"]
     ELSE LET sifted == down(ImplSwap(vs, 0, n), m[h.impl].rev, 0, n)
          IN [m |-> [m EXCEPT ![h.impl].values = SubSeq(sifted, 1, n)],
              ret |-> sifted[n + 1], panic |-> "none"]

\* values is make([]E, 0, len(h.impl.values)): its length is 0
HeapReverse(h, m) ==
  LET r == NewId(m)
      rev == ~m[h.impl].rev
      made == <<>>
      copied == Copy(made, m[h.impl].values, Min(Len(made), Len(m[h.impl].values)))
  IN [h |-> [impl |-> r],
      m |-> m @@ (r :> [values |-> stdInit(copied, rev), rev |-> rev])]

\* the heapImpl the handle cannot get at is garbage, and addresses carry no
\* meaning beyond identity: the one in reach is put at ImplId
HeapCollect(h, m) == [h |-> [impl |-> ImplId], m |-> (ImplId :> m[h.impl])]

RECURSIVE PopAllLoop(_, _, _)
\* ranging over PopAll() to the end: the values handed to yield, in order
PopAllLoop(h, m, out) ==
  IF HeapLen(h, m) <= 0 THEN out
  ELSE LET p == HeapPop(h, m) IN PopAllLoop(h, p.m, Append(out, p.ret))

PopAll(h, m) == PopAllLoop(h, m, <<>>)

RECURSIVE DrainLoop(_, _, _, _, _)
\* out: the pairs handed to yield so far, each value popped before yield sees
\* it; the consumer's yield returns false on its call number stop
DrainLoop(h, m, i, stop, out) ==
  IF HeapLen(h, m) <= 0 THEN [m |-> m, out |-> out]
  ELSE LET p == HeapPop(h, m)
           called == Append(out, <<i, p.ret>>)
       IN IF Len(called) = stop THEN [m |-> p.m, out |-> called]
          ELSE DrainLoop(h, p.m, i + 1, stop, called)

\* ranging over h.Drain() with such a consumer
Drain(h, m, stop) == DrainLoop(h, m, 0, stop, <<>>)

\* ------------------------------------------------------------------- sets

\* A Set[E] is a Go map[E]struct{}; mem holds the maps, each at an address.
\* The element type is any comparable type, and a floating-point one has a
\* value that is not equal to itself, NaN.  A map never finds a NaN key:
\* m[NaN] = x adds an entry each time, a lookup of NaN finds none, and
\* delete(m, NaN) removes none.  A map is therefore keys, the set of its keys
\* that are equal to themselves, and nans, the number of its NaN entries.

\* elements are 0..MaxElem and NaN
MaxElem == 1

\* math.NaN(), written as a number outside 0..MaxElem
NaN == 0 - 1

SetVals == (0..MaxElem) \cup {NaN}

\* make(Set[E])
MapMake == [keys |-> {}, nans |-> 0]

\* len(m)
MapLen(m) == Cardinality(m.keys) + m.nans

\* _, ok := m[v]
MapHas(m, v) == v # NaN /\ v \in m.keys

\* m[v] = struct{}{}
MapPut(m, v) ==
  IF v = NaN THEN [m EXCEPT !.nans = @ + 1] ELSE [m EXCEPT !.keys = @ \cup {v}]

\* delete that removes nothing (seeded fault)
MapDeleteNot(m, v) == m

\* delete(m, v)
MapDelete(m, v) == IF v = NaN THEN m ELSE [m EXCEPT !.keys = @ \ {v}]

\* for v := range m: every entry once, NaN entries included.  Go fixes no
\* order; nothing below depends on it (each loop either puts every entry into
\* a map or looks for the first entry of some kind), so one order is taken.
MapRange(m) == Sorted(m.keys) \o Rep(m.nans, NaN)

RECURSIVE MapPutAll(_, _)
\* for _, v := range values { m[v] = struct{}{} }
MapPutAll(m, values) ==
  IF values = <<>> THEN m ELSE MapPutAll(MapPut(m, Head(values)), Tail(values))

\* New(values...), as a map
SetsNew(values) == MapPutAll(MapMake, values)

SetsLen(m, s) == MapLen(m[s])

SetsContains(m, s, v) == MapHas(m[s], v)

SetsSet(m, s, v) == [m EXCEPT ![s] = MapPut(@, v)]

SetsUnset(m, s, v) == [m EXCEPT ![s] = MapDelete(@, v)]

\* Subset that does not look (seeded fault)
SetsSubsetAny(m, s, t) == TRUE

SetsSubset(m, s, t) ==
  \A i \in 1..Len(MapRange(m[s])) : SetsContains(m, t, MapRange(m[s])[i])

SetsEqual(m, s, t) == SetsLen(m, s) = SetsLen(m, t) /\ SetsSubset(m, s, t)

\* the new set is at address ret
SetsClone(m, s) ==
  LET t == NewId(m)
  IN [m |-> m @@ (t :> MapPutAll(MapMake, MapRange(m[s]))), ret |-> t]

SetsUnion(m, s, t) ==
  LET u == NewId(m)
  IN [m |-> m @@ (u :> MapPutAll(MapPutAll(MapMake, MapRange(m[s])), MapRange(m[t]))),
      ret |-> u]

SetsIntersection(m, s, t) ==
  LET i == NewId(m)
  IN [m |-> m @@ (i :> MapPutAll(MapMake,
                                 SelectSeq(MapRange(m[s]),
                                           LAMBDA v : SetsContains(m, t, v)))),
      ret |-> i]

\* ------------------------------------------------- the calls, as recorded

\* last: the last call, its argument and its result; for DeleteAt also `was`,
\* what At read at that index just before, and for Insert `re`, whether it
\* puts back what the DeleteAt just before it removed; for Delete and DeleteAt
\* also `lv`, the level of the list just before.
\* abs: the ordered sequence the calls made so far describe (an upsert keeps
\* one element per key); dups: the Set calls so far whose value was equal to
\* one that the calls had stored and not removed
RefInsert(s, v) ==
  IF \E i \in 1..Len(s) : Cmp(s[i], v) = 0
    THEN [s EXCEPT ![CHOOSE i \in 1..Len(s) : Cmp(s[i], v) = 0] = v]
    ELSE LET n == Cardinality({i \in 1..Len(s) : Cmp(s[i], v) < 0})
         IN SubSeq(s, 1, n) \o <<v>> \o SubSeq(s, n + 1, Len(s))

RefDeleteAt(s, i) ==
  IF i < 0 \/ i >= Len(s) THEN s ELSE SubSeq(s, 1, i) \o SubSeq(s, i + 2, Len(s))

RefDelete(s, v) == SelectSeq(s, LAMBDA x : Cmp(x, v) # 0)

RefHas(s, v) == \E i \in 1..Len(s) : Cmp(s[i], v) = 0

\* the element of s equal to v
RefGet(s, v) == s[CHOOSE i \in 1..Len(s) : Cmp(s[i], v) = 0]

\* a collection that may hold a value more than once, kept as a sequence in
\* the order of key, then payload
BagAdd(s, x) ==
  LET n == Cardinality({i \in 1..Len(s) :
                          s[i].k < x.k \/ (s[i].k = x.k /\ s[i].t <= x.t)})
  IN SubSeq(s, 1, n) \o <<x>> \o SubSeq(s, n + 1, Len(s))

\* s without one x
BagDel(s, x) ==
  IF \E i \in 1..Len(s) : s[i] = x
    THEN LET n == CHOOSE i \in 1..Len(s) : s[i] = x
         IN SubSeq(s, 1, n - 1) \o SubSeq(s, n + 1, Len(s))
    ELSE s

RECURSIVE BagOf(_)
BagOf(s) == IF s = <<>> THEN <<>> ELSE BagAdd(BagOf(Tail(s)), Head(s))

RECURSIVE BagDelAll(_, _)
\* s without one of each value of out
BagDelAll(s, out) ==
  IF out = <<>> THEN s ELSE BagDelAll(BagDel(s, Head(out)), Tail(out))

\* ------------------------------------- the machine, Insert/Delete variant

Init ==
  /\ mem = NewFunc.m
  /\ l = NewFunc.h
  /\ abs = <<>>
  /\ dups = 0
  /\ last = [op |-> "NewFunc", arg |-> Zero, ret |-> Zero]

DoInsert ==
  \E v \in Vals : \E newLevel \in randomLevel(l) :
    LET r == Insert(l, mem, v, newLevel)
    IN /\ mem' = r.m
       /\ l' = r.h
       /\ abs' = RefInsert(abs, v)
       /\ last' = [op |-> "Insert", arg |-> v,
                   ret |-> IF r.fresh THEN newLevel ELSE 0,
                   re |-> last.op = "DeleteAt" /\ last.ret = "none" /\ last.was = v]
       /\ UNCHANGED dups

DoDelete ==
  \E v \in Vals :
    LET r == Delete(l, mem, v)
    IN /\ mem' = r.m
       /\ l' = r.h
       /\ abs' = RefDelete(abs, v)
       /\ last' = [op |-> "Delete", arg |-> v, ret |-> r.found, lv |-> l.level]
       /\ UNCHANGED dups

DoDeleteAt ==
  \E i \in (0 - 1)..l.size :
    LET r == DeleteAt(l, mem, i)
    IN /\ mem' = r.m
       /\ l' = r.h
       /\ abs' = RefDeleteAt(abs, i)
       /\ last' = [op |-> "DeleteAt", arg |-> i, ret |-> r.panic,
                   was |-> At(l, mem, i).val, lv |-> l.level]
       /\ UNCHANGED dups

Next == DoInsert \/ DoDelete \/ DoDeleteAt

Spec == Init /\ [][Next]_vars

\* the list of up to MaxDeep + 1 elements, also searched: with four elements
\* a node can be as high as 4, and be left in a list of one
MaxDeep == 3

DeepVals == {[k |-> k, t |-> 0] : k \in 0..MaxDeep}

DoInsertDeep ==
  \E v \in DeepVals : \E newLevel \in randomLevel(l) :
    LET r == Insert(l, mem, v, newLevel)
    IN /\ mem' = r.m
       /\ l' = r.h
       /\ abs' = RefInsert(abs, v)
       /\ last' = [op |-> "Insert", arg |-> v,
                   ret |-> IF r.fresh THEN newLevel ELSE 0]
       /\ UNCHANGED dups

DoDeleteDeep ==
  \E v \in DeepVals :
    LET r == Delete(l, mem, v)
    IN /\ mem' = r.m
       /\ l' = r.h
       /\ abs' = RefDelete(abs, v)
       /\ last' = [op |-> "Delete", arg |-> v, found |-> r.found, lv |-> l.level]
       /\ UNCHANGED dups

DoSearch ==
  \E v \in DeepVals :
    /\ last' = [op |-> "Search", val |-> v, entry |-> SearchEntry(l),
                out |-> Search(l, mem, v)]
    /\ UNCHANGED <<mem, l, abs, dups>>

NextDeep == DoInsertDeep \/ DoDeleteDeep \/ DoDeleteAt \/ DoSearch

SpecDeep == Init /\ [][NextDeep]_vars

\* two lists given the same calls, each drawing its own heights.  abs: the
\* second list, its handle and its heap
InitTwo ==
  /\ mem = NewFunc.m
  /\ l = NewFunc.h
  /\ abs = NewFunc
  /\ dups = 0
  /\ last = [op |-> "NewFunc"]

DoInsertTwo ==
  \E v \in Vals : \E newLevel \in randomLevel(l) : \E otherLevel \in randomLevel(abs.h) :
    LET r == Insert(l, mem, v, newLevel)
        o == Insert(abs.h, abs.m, v, otherLevel)
    IN /\ mem' = r.m
       /\ l' = r.h
       /\ abs' = [h |-> o.h, m |-> o.m]
       /\ last' = [op |-> "Insert", arg |-> v]
       /\ UNCHANGED dups

DoDeleteTwo ==
  \E v \in Vals :
    LET r == Delete(l, mem, v)
        o == Delete(abs.h, abs.m, v)
    IN /\ mem' = r.m
       /\ l' = r.h
       /\ abs' = [h |-> o.h, m |-> o.m]
       /\ last' = [op |-> "Delete", arg |-> v, found |-> r.found, other |-> o.found]
       /\ UNCHANGED dups

DoDeleteAtTwo ==
  \E i \in (0 - 1)..l.size :
    LET r == DeleteAt(l, mem, i)
        o == DeleteAt(abs.h, abs.m, i)
    IN /\ mem' = r.m
       /\ l' = r.h
       /\ abs' = [h |-> o.h, m |-> o.m]
       /\ last' = [op |-> "DeleteAt", at |-> i, panic |-> r.panic, other |-> o.panic]
       /\ UNCHANGED dups

NextTwo == DoInsertTwo \/ DoDeleteTwo \/ DoDeleteAtTwo

SpecTwo == InitTwo /\ [][NextTwo]_vars

\* the keyed list
InitKeyed ==
  /\ mem = KNew.m
  /\ l = KNew.h
  /\ abs = <<>>
  /\ dups = 0
  /\ last = [op |-> "New"]

DoKInsert ==
  \E v \in Vals : \E newLevel \in randomLevel(l) :
    LET r == KInsert(l, mem, v.k, v.t, newLevel)
    IN /\ mem' = r.m
       /\ l' = r.h
       /\ abs' = RefInsert(abs, v)
       /\ last' = [op |-> "Insert", key |-> v.k, val |-> v.t,
                   height |-> IF r.fresh THEN newLevel ELSE 0]
       /\ UNCHANGED dups

DoKDelete ==
  \E key \in 0..MaxKey :
    LET r == KDelete(l, mem, key)
    IN /\ mem' = r.m
       /\ l' = r.h
       /\ abs' = RefDelete(abs, [k |-> key, t |-> 0])
       /\ last' = [op |-> "Delete", key |-> key]
       /\ UNCHANGED dups

DoKDeleteAt ==
  \E i \in (0 - 1)..l.size :
    LET r == KDeleteAt(l, mem, i)
    IN /\ mem' = r.m
       /\ l' = r.h
       /\ abs' = RefDeleteAt(abs, i)
       /\ last' = [op |-> "DeleteAt", at |-> i, panic |-> r.panic]
       /\ UNCHANGED dups

NextKeyed == DoKInsert \/ DoKDelete \/ DoKDeleteAt

SpecKeyed == InitKeyed /\ [][NextKeyed]_vars

\* the list, also ranged over with All
DoAll ==
  \E stop \in 1..(l.size + 1) :
    /\ last' = [op |-> "All", stop |-> stop, ret |-> All(l, mem, stop)]
    /\ UNCHANGED <<mem, l, abs, dups>>

NextAll == DoInsert \/ DoDelete \/ DoDeleteAt \/ DoAll

SpecAll == Init /\ [][NextAll]_vars

\* ------------------------------------------------------ the machine, heaps

\* Push is not called on a heap of MaxHeap elements, and New is called with
\* fewer than MaxHeap values.  abs: the values the calls gave the heap and it
\* has not handed out since; Push is not called either when these are MaxHeap
MaxHeap == 3

InitHeap ==
  \E n \in 0..(MaxHeap - 1) : \E values \in [1..n -> Vals] :
    /\ mem = HeapNewFunc(values).m
    /\ l = HeapNewFunc(values).h
    /\ abs = BagOf(values)
    /\ dups = 0
    /\ last = [op |-> "New", arg |-> Zero, ret |-> Zero]

DoPush ==
  /\ HeapLen(l, mem) < MaxHeap
  /\ Len(abs) < MaxHeap
  /\ \E x \in Vals :
       /\ mem' = HeapPush(l, mem, x)
       /\ abs' = BagAdd(abs, x)
       /\ last' = [op |-> "Push", arg |-> x, ret |-> Zero]
       /\ UNCHANGED <<l, dups>>

DoPop ==
  LET r == HeapPop(l, mem)
  IN /\ mem' = r.m
     /\ abs' = IF r.panic = "none" THEN BagDel(abs, r.ret) ELSE abs
     /\ last' = [op |-> "Pop", arg |-> Zero, ret |-> r.ret, panic |-> r.panic]
     /\ UNCHANGED <<l, dups>>

\* h = h.Reverse(): the heap under test is from now on the one Reverse returned
DoReverse ==
  LET r == HeapReverse(l, mem)
      c == HeapCollect(r.h, r.m)
  IN /\ mem' = c.m
     /\ l' = c.h
     /\ last' = [op |-> "Reverse", arg |-> Zero, ret |-> Zero]
     /\ UNCHANGED <<abs, dups>>

NextHeap == DoPush \/ DoPop \/ DoReverse

SpecHeap == InitHeap /\ [][NextHeap]_vars

\* the heap ranged over with Drain; vals: the values yield was handed
DoDrain ==
  \E stop \in 1..(HeapLen(l, mem) + 1) :
    LET r == Drain(l, mem, stop)
        vals == [i \in 1..Len(r.out) |-> r.out[i][2]]
    IN /\ mem' = r.m
       /\ abs' = BagDelAll(abs, vals)
       /\ last' = [op |-> "Drain", stop |-> stop, out |-> r.out]
       /\ UNCHANGED <<l, dups>>

\* a min-heap: New or NewFunc, then Push, Pop and Drain
NextDrain == DoPush \/ DoPop \/ DoDrain

SpecDrain == InitHeap /\ [][NextDrain]_vars

\* ------------------------------------------------------- the machine, sets

\* Set(NaN) is not called on a set of MaxNaN NaN entries, and New is called
\* with at most MaxNew values
MaxNaN == 2

MaxNew == 2

\* the two sets under test
Who == {"s", "t"}

Other(who) == IF who = "s" THEN "t" ELSE "s"

\* abs[who]: has, the values the calls put into the set and did not take out
\* (New and Set put in, Unset takes out), and nans, how many of the values
\* New and Set were given are NaN
AbsNew(values) ==
  [has |-> Range(values),
   nans |-> Cardinality({i \in 1..Len(values) : values[i] = NaN})]

InitSets ==
  \E ns, nt \in 0..MaxNew : \E vs \in [1..ns -> SetVals] : \E vt \in [1..nt -> SetVals] :
    /\ l = [s |-> 0, t |-> 1]
    /\ mem = (0 :> SetsNew(vs)) @@ (1 :> SetsNew(vt))
    /\ abs = [s |-> AbsNew(vs), t |-> AbsNew(vt)]
    /\ dups = 0
    /\ last = [op |-> "New"]

\* was: Contains(v) just before; same: the call changed nothing
DoSetsSet ==
  \E who \in Who : \E v \in SetVals :
    /\ v = NaN => mem[l[who]].nans < MaxNaN
    /\ mem' = SetsSet(mem, l[who], v)
    /\ abs' = [abs EXCEPT ![who].has = @ \cup {v},
                          ![who].nans = IF v = NaN THEN @ + 1 ELSE @]
    /\ last' = [op |-> "Set", who |-> who, arg |-> v,
                was |-> SetsContains(mem, l[who], v), same |-> (mem' = mem)]
    /\ UNCHANGED <<l, dups>>

DoSetsUnset ==
  \E who \in Who : \E v \in SetVals :
    /\ mem' = SetsUnset(mem, l[who], v)
    /\ abs' = [abs EXCEPT ![who].has = @ \ {v}]
    /\ last' = [op |-> "Unset", who |-> who, arg |-> v,
                was |-> SetsContains(mem, l[who], v), same |-> (mem' = mem)]
    /\ UNCHANGED <<l, dups>>

\* who.Equal(other), and the same the other way round
DoSetsEqual ==
  \E who \in Who :
    /\ last' = [op |-> "Equal", who |-> who,
                ok |-> SetsEqual(mem, l[who], l[Other(who)]),
                back |-> SetsEqual(mem, l[Other(who)], l[who])]
    /\ UNCHANGED <<mem, l, abs, dups>>

DoSetsSubset ==
  \E who \in Who :
    /\ last' = [op |-> "Subset", who |-> who,
                ok |-> SetsSubset(mem, l[who], l[Other(who)])]
    /\ UNCHANGED <<mem, l, abs, dups>>

\* the operands of a call that returns a new set stay at their addresses, and
\* the new set is kept in the record of the call only; eq: who.Equal(clone)
DoSetsClone ==
  \E who \in Who :
    LET r == SetsClone(mem, l[who])
    IN /\ mem' = [a \in DOMAIN mem |-> r.m[a]]
       /\ last' = [op |-> "Clone", who |-> who, out |-> r.m[r.ret],
                   eq |-> SetsEqual(r.m, l[who], r.ret)]
       /\ UNCHANGED <<l, abs, dups>>

DoSetsUnion ==
  \E who \in Who :
    LET r == SetsUnion(mem, l[who], l[Other(who)])
    IN /\ mem' = [a \in DOMAIN mem |-> r.m[a]]
       /\ last' = [op |-> "Union", who |-> who, out |-> r.m[r.ret]]
       /\ UNCHANGED <<l, abs, dups>>

DoSetsIntersection ==
  \E who \in Who :
    LET r == SetsIntersection(mem, l[who], l[Other(who)])
    IN /\ mem' = [a \in DOMAIN mem |-> r.m[a]]
       /\ last' = [op |-> "Intersection", who |-> who, out |-> r.m[r.ret]]
       /\ UNCHANGED <<l, abs, dups>>

NextSets ==
  \/ DoSetsSet \/ DoSetsUnset \/ DoSetsEqual \/ DoSetsSubset
  \/ DoSetsClone \/ DoSetsUnion \/ DoSetsIntersection

SpecSets == InitSets /\ [][NextSets]_vars

\* ----------------------------------------- the machine, Set/Unset variant

\* Set is not called on a list of MaxSize elements
MaxSize == 3

\* Set is not called any more once MaxDup Set calls were made with a value
\* equal to a stored one
MaxDup == 1

Dup(v) == IF RefHas(abs, v) THEN 1 ELSE 0

InitSet ==
  /\ mem = NewFunc2(defaultOptions).m
  /\ l = NewFunc2(defaultOptions).h
  /\ abs = <<>>
  /\ dups = 0
  /\ last = [op |-> "NewFunc", arg |-> Zero, ret |-> Zero]

DoSet ==
  /\ l.size < MaxSize
  /\ \E v \in Vals : \E newLevel \in randomLevel2(l) :
       LET r == Set(l, mem, v, newLevel)
       IN /\ dups < MaxDup
          /\ mem' = r.m
          /\ l' = r.h
          /\ abs' = RefInsert(abs, v)
          /\ dups' = dups + Dup(v)
          /\ last' = [op |-> "Set", arg |-> v,
                      ret |-> IF r.fresh THEN newLevel ELSE 0]

DoUnset ==
  \E v \in Vals :
    LET r == Unset(l, mem, v)
    IN /\ mem' = r.m
       /\ l' = r.h
       /\ abs' = RefDelete(abs, v)
       /\ last' = [op |-> "Unset", arg |-> v, ret |-> r.found]
       /\ UNCHANGED dups

DoRemoveAt ==
  \E i \in (0 - 1)..l.size :
    LET r == RemoveAt(l, mem, i)
    IN /\ mem' = r.m
       /\ l' = r.h
       /\ abs' = RefDeleteAt(abs, i)
       /\ last' = [op |-> "RemoveAt", arg |-> i, ret |-> r.panic]
       /\ UNCHANGED dups

NextSet == DoSet \/ DoUnset \/ DoRemoveAt

SpecSet == InitSet /\ [][NextSet]_vars

\* ------------------------- the machine, Set/Unset variant with UpdateAt

\* Set of a value that is not equal to a stored one
DoSetNew == DoSet /\ dups' = 0

DoUpdateAt ==
  \E i \in (0 - 1)..l.size : \E v \in Vals :
    LET r == UpdateAt2(l, mem, i, v)
    IN /\ mem' = r.m
       /\ abs' = IF r.panic = "none" THEN [abs EXCEPT ![i + 1] = v] ELSE abs
       /\ last' = [op |-> "UpdateAt", at |-> i, arg |-> v, ret |-> r.panic]
       /\ UNCHANGED <<l, dups>>

NextUpd == DoSetNew \/ DoUnset \/ DoUpdateAt

SpecUpd == InitSet /\ [][NextUpd]_vars

\* ------------------------- the machine, Set/Unset variant with SetLogP

\* NewFunc is called with SetLogP(1), ..., SetLogP(MaxLogP)
MaxLogP == 3

InitOpt ==
  \E logP \in 1..MaxLogP :
    /\ mem = NewFunc2(SetLogP(defaultOptions, logP)).m
    /\ l = NewFunc2(SetLogP(defaultOptions, logP)).h
    /\ abs = <<>>
    /\ dups = 0
    /\ last = [op |-> "NewFunc", arg |-> Zero, ret |-> Zero]

NextOpt == DoSetNew \/ DoUnset \/ DoRemoveAt

SpecOpt == InitOpt /\ [][NextOpt]_vars

\* ------------------------------ the machine, a list and its view

\* at most MaxCalls calls are made
MaxCalls == 4

\* l: the list; abs: the handle l.Reverse() returned while l was empty; mem:
\* the heap, with the one head; dups: the number of calls made.  A panic ends
\* the program.
InitView ==
  /\ mem = NewFunc.m
  /\ l = NewFunc.h
  /\ abs = Reverse(NewFunc.h)
  /\ dups = 0
  /\ last = [op |-> "Reverse", rev |-> FALSE, panic |-> "none"]

DoViewInsert ==
  /\ last.panic = "none"
  /\ dups < MaxCalls
  /\ \E rev \in BOOLEAN : \E v \in Vals :
       \E newLevel \in ViewRandomLevel(IF rev THEN abs ELSE l) :
         LET r == ViewInsert(IF rev THEN abs ELSE l, mem, rev, v, newLevel)
         IN /\ mem' = r.m
            /\ l' = IF rev THEN l ELSE r.h
            /\ abs' = IF rev THEN r.h ELSE abs
            /\ dups' = dups + 1
            /\ last' = [op |-> "Insert", rev |-> rev, panic |-> r.panic]

DoViewDelete ==
  /\ last.panic = "none"
  /\ dups < MaxCalls
  /\ \E rev \in BOOLEAN : \E v \in Vals :
       LET r == ViewDelete(IF rev THEN abs ELSE l, mem, rev, v)
       IN /\ mem' = r.m
          /\ l' = IF rev THEN l ELSE r.h
          /\ abs' = IF rev THEN r.h ELSE abs
          /\ dups' = dups + 1
          /\ last' = [op |-> "Delete", rev |-> rev, panic |-> r.panic]

DoViewDeleteAt ==
  /\ last.panic = "none"
  /\ dups < MaxCalls
  /\ \E rev \in BOOLEAN : \E i \in 0..MaxCalls :
       LET r == ViewDeleteAt(IF rev THEN abs ELSE l, mem, i)
       IN /\ mem' = r.m
          /\ l' = IF rev THEN l ELSE r.h
          /\ abs' = IF rev THEN r.h ELSE abs
          /\ dups' = dups + 1
          /\ last' = [op |-> "DeleteAt", rev |-> rev, panic |-> r.panic]

NextView == DoViewInsert \/ DoViewDelete \/ DoViewDeleteAt

SpecView == InitView /\ [][NextView]_vars


\* ------------------------------------------------------------ observation

RECURSIVE AtUpTo(_, _, _)
\* what At(0), ..., At(n - 1) return
AtUpTo(h, m, n) ==
  IF n = 0 THEN <<>> ELSE Append(AtUpTo(h, m, n - 1), At(h, m, n - 1))

\* what At(0), ..., At(Len() - 1) return
Elems(h, m) == AtUpTo(h, m, h.size)

RECURSIVE Got(_)
\* the results of reads that return the values of s without a panic
Got(s) ==
  IF s = <<>> THEN <<>> ELSE <<[panic |-> "none", val |-> Head(s)]>> \o Got(Tail(s))

\* the nodes of the level-0 chain
Nodes(h, m) == Chain(m, h.head, 0, Cardinality(DOMAIN m))

Increasing(e) == \A i, j \in 1..Len(e) : i < j => Cmp(e[i].val, e[j].val) < 0

\* ------------------------------------------- claims, Insert/Delete variant

\* C1: after any sequence of Insert, Delete and DeleteAt calls and for every
\* choice of node heights, At(i) returns for every i in [0, Len()) the element
\* of rank i among the stored values, and the values At returns for
\* i = 0..Len()-1 are strictly increasing under the comparator.
C1_AtReturnsRank ==
  /\ Elems(l, mem) = Got(abs)
  /\ Increasing(Elems(l, mem))

\* three elements on three levels, the last of them put in the middle
C1_Witness ==
  /\ last.op = "Insert" /\ last.arg.k = 1 /\ last.ret >= 2
  /\ l.size = 3 /\ l.level = 3
  /\ At(l, mem, 2).val.k = MaxKey

\* C2: after any sequence of Insert, Delete and DeleteAt calls, Search(v)
\* returns (stored value, true) exactly when a value comparing equal to v is
\* stored and (zero value, false) otherwise; Search(v) right after Insert(v)
\* returns (v, true), and right after Delete(v) it returns (_, false).
C2_SearchFindsStored ==
  /\ \A v \in Vals :
       Search(l, mem, v) = IF RefHas(abs, v)
                             THEN [val |-> RefGet(abs, v), ok |-> TRUE]
                             ELSE [val |-> Zero, ok |-> FALSE]
  /\ last.op = "Insert" => Search(l, mem, last.arg) = [val |-> last.arg, ok |-> TRUE]
  /\ last.op = "Delete" => ~Search(l, mem, last.arg).ok

\* a value was deleted from a list that keeps two, one of them found by a
\* value that differs from it in the payload
C2_Witness ==
  /\ last.op = "Delete" /\ last.ret = TRUE
  /\ l.size = 2 /\ l.level >= 2
  /\ Search(l, mem, [k |-> 1, t |-> 0]) = [val |-> [k |-> 1, t |-> 1], ok |-> TRUE]

\* C3: Len() is the number of distinct (comparator-inequivalent) values stored,
\* which is the number of nodes on the level-0 chain, after every call; Insert
\* of a value equal to a stored one does not change Len().
C3_LenCountsStored ==
  [][/\ l'.size = Len(abs')
     /\ l'.size = Len(Nodes(l', mem'))
     /\ \A i, j \in 1..Len(abs') : i # j => Cmp(abs'[i], abs'[j]) # 0
     /\ (last'.op = "Insert" /\ Search(l, mem, last'.arg).ok) => l'.size = l.size]_vars

\* a value equal to a stored one was inserted in a list of two
C3_Witness ==
  /\ last.op = "Insert" /\ last.ret = 0
  /\ l.size = 2 /\ l.level >= 2

\* C4: Insert(v) when a stored value compares equal to v replaces that node's
\* value by v and changes nothing else: no node is created, size, level and
\* every next and width entry are unchanged; Search(v) then returns v.
C4_InsertEqualOverwrites ==
  [][(last'.op = "Insert" /\ Search(l, mem, last'.arg).ok) =>
       /\ l' = l
       /\ DOMAIN mem' = DOMAIN mem
       /\ \A n \in DOMAIN mem :
            /\ mem'[n].next = mem[n].next
            /\ mem'[n].width = mem[n].width
            /\ mem'[n].val = IF n \in Range(Nodes(l, mem)) /\ Cmp(mem[n].val, last'.arg) = 0
                               THEN last'.arg
                               ELSE mem[n].val
       /\ Search(l', mem', last'.arg) = [val |-> last'.arg, ok |-> TRUE]]_vars

\* a value that differs in the payload from the stored one was inserted in a
\* list of three on several levels
C4_Witness ==
  /\ last.op = "Insert" /\ last.ret = 0 /\ last.arg.t = 1
  /\ l.size = 3 /\ l.level >= 2
  /\ Search(l, mem, [k |-> 1, t |-> 0]).val.t = 1

\* C8: Delete(v) of a stored value removes exactly that element: Len() is one
\* less, and At(0..Len()-1) enumerates the previous sequence without v, every
\* other element in its previous relative order.
C8_DeleteRemovesThat ==
  [][(last'.op = "Delete" /\ Search(l, mem, last'.arg).ok) =>
       /\ l'.size = l.size - 1
       /\ Len(Elems(l', mem')) = Len(Elems(l, mem)) - 1
       /\ Elems(l', mem') =
            SelectSeq(Elems(l, mem), LAMBDA e : Cmp(e.val, last'.arg) # 0)]_vars

\* the middle one of three elements was deleted
C8_Witness ==
  /\ last.op = "Delete" /\ last.ret = TRUE /\ last.arg.k = 1
  /\ l.size = 2
  /\ Elems(l, mem) = Got(<<[k |-> 0, t |-> 0], [k |-> MaxKey, t |-> 0]>>)

\* C9: DeleteAt(i) for 0 <= i < Len() removes exactly the element At(i)
\* returned just before: Len() is one less and At enumerates the previous
\* sequence without position i; the DeleteAt that returns a value makes the
\* same change and returns that element.
C9_DeleteAtRemovesRank ==
  [][\A i \in 0..(l.size - 1) :
       (last'.op = "DeleteAt" /\ last'.arg = i) =>
         /\ last'.ret = "none"
         /\ l'.size = l.size - 1
         /\ Elems(l', mem') = RefDeleteAt(Elems(l, mem), i)
         /\ DeleteAtV(l, mem, i) =
              [h |-> l', m |-> mem', panic |-> "none", ret |-> At(l, mem, i).val]]_vars

\* the middle one of three elements was removed by its index
C9_Witness ==
  /\ last.op = "DeleteAt" /\ last.arg = 1 /\ last.ret = "none"
  /\ l.size = 2 /\ l.level >= 2
  /\ Elems(l, mem) = Got(<<[k |-> 0, t |-> 0], [k |-> MaxKey, t |-> 0]>>)

\* ---------------------------------------------- claims, Set/Unset variant

RECURSIVE At2UpTo(_, _, _)
\* what At(0), ..., At(n - 1) return
At2UpTo(h, m, n) ==
  IF n = 0 THEN <<>> ELSE Append(At2UpTo(h, m, n - 1), At2(h, m, n - 1))

\* what At(0), ..., At(Len() - 1) return
Elems2(h, m) == At2UpTo(h, m, h.size)

\* an element of the list compares equal to v
Holds(h, m, v) == \E n \in Range(Nodes(h, m)) : Cmp(m[n].val, v) = 0

\* C5: Set(v) when an element comparing equal to v is in the list overwrites
\* that element and adds no node: Len() is unchanged, and the list never holds
\* two elements that compare equal.
C5_SetEqualOverwrites ==
  [][(last'.op = "Set" /\ Holds(l, mem, last'.arg)) =>
       /\ l'.size = l.size
       /\ Len(Nodes(l', mem')) = Len(Nodes(l, mem))
       /\ Holds(l', mem', last'.arg)
       /\ \A i, j \in 1..Len(Nodes(l', mem')) :
            i # j => Cmp(mem'[Nodes(l', mem')[i]].val, mem'[Nodes(l', mem')[j]].val) # 0]_vars

\* C6: after Set of n pairwise-distinct values in any order and for every
\* choice of node heights, Len() = n and At(i) returns the value of rank i for
\* every i in [0, n); stated for every list whose calls never stored a value
\* equal to a stored one, whatever was removed in between.
C6_SetDistinctThenAt ==
  dups = 0 =>
    /\ l.size = Len(abs)
    /\ Elems2(l, mem) = Got(abs)

\* the middle one of three values was Set last, in a list of three levels whose
\* last node is on all of them
C6_Witness ==
  /\ dups = 0 /\ last.op = "Set" /\ last.arg.k = 1 /\ last.ret >= 2
  /\ l.size = 3 /\ l.level = 3
  /\ Len(mem[3].next) = 3
  /\ At2(l, mem, 1).val = last.arg

\* C7: with the default options, after any sequence of Set and Unset calls on
\* pairwise-distinct values, Get(v) returns (v, true) exactly when v was Set
\* and not Unset afterwards and (zero value, false) otherwise; when all the
\* values have been Unset, Len() = 0.
C7_GetAfterSetUnset ==
  dups = 0 =>
    /\ \A v \in Vals :
         Get(l, mem, v) = IF RefHas(abs, v)
                            THEN [val |-> RefGet(abs, v), ok |-> TRUE]
                            ELSE [val |-> Zero, ok |-> FALSE]
    /\ abs = <<>> => l.size = 0

\* one of three values was Unset; the two left are found, one by a value that
\* differs from it in the payload
C7_Witness ==
  /\ dups = 0 /\ last.op = "Unset" /\ last.ret = TRUE
  /\ l.size = 2 /\ l.level >= 2
  /\ ~Get(l, mem, last.arg).ok
  /\ Get(l, mem, [k |-> 1, t |-> 0]) = [val |-> [k |-> 1, t |-> 1], ok |-> TRUE]

\* C10: RemoveAt(i) for 0 <= i < Len() removes exactly the element of rank i
\* and keeps the others in order, on a list of distinct values: Len() is one
\* less (so n valid calls empty a list of n), and the At(0) read before a
\* RemoveAt(0) is below the At(0) read after it.
C10_RemoveAtRemovesRank ==
  [][\A i \in 0..(l.size - 1) :
       (dups = 0 /\ last'.op = "RemoveAt" /\ last'.arg = i) =>
         /\ last'.ret = "none"
         /\ l'.size = l.size - 1
         /\ Elems2(l', mem') = RefDeleteAt(Elems2(l, mem), i)
         /\ Increasing(Elems2(l', mem'))
         /\ (i = 0 /\ l'.size > 0) =>
              Cmp(At2(l, mem, 0).val, At2(l', mem', 0).val) < 0]_vars

\* the middle one of three elements was removed by its index
C10_Witness ==
  /\ dups = 0 /\ last.op = "RemoveAt" /\ last.arg = 1 /\ last.ret = "none"
  /\ l.size = 2
  /\ Elems2(l, mem) = Got(<<[k |-> 0, t |-> 0], [k |-> MaxKey, t |-> 0]>>)

\* ------------------------------------ claims, Insert/Delete variant (2)

\* C11: Delete(v) when no stored value compares equal to v changes nothing:
\* size, level, the head arrays and the next and width entries of every node
\* are the same before and after.
C11_DeleteAbsentNoChange ==
  [][(last'.op = "Delete" /\ ~Holds(l, mem, last'.arg)) =>
       /\ last'.ret = FALSE
       /\ l' = l
       /\ mem' = mem]_vars

\* a value between two stored ones was deleted from a list of several levels
\* that does not hold it
C11_Witness ==
  /\ last.op = "Delete" /\ last.ret = FALSE /\ last.arg.k = 1
  /\ l.size = 2 /\ l.level >= 2
  /\ ~Search(l, mem, last.arg).ok

\* C12: for every reachable list, every i in [0, Len()) and every height the
\* new node can draw: with x = At(i), DeleteAt(i) followed by Insert(x) brings
\* Len() back to what it was, Search(x) returns (x, true) and At(i) returns x.
C12_DeleteAtThenInsert ==
  \A i \in 0..(l.size - 1) :
    LET x == At(l, mem, i).val
        d == DeleteAt(l, mem, i)
    IN /\ d.panic = "none"
       /\ \A newLevel \in randomLevel(d.h) :
            LET r == Insert(d.h, d.m, x, newLevel)
            IN /\ r.fresh
               /\ r.h.size = l.size
               /\ Search(r.h, r.m, x) = [val |-> x, ok |-> TRUE]
               /\ At(r.h, r.m, i) = [panic |-> "none", val |-> x]
               /\ Elems(r.h, r.m) = Elems(l, mem)

\* the middle one of three elements was removed by its index and inserted
\* again, on more levels than the list had left
C12_Witness ==
  /\ last.op = "Insert" /\ last.re /\ last.arg = [k |-> 1, t |-> 1]
  /\ last.ret = l.level /\ l.level >= 3
  /\ l.size = 3
  /\ At(l, mem, 1).val = last.arg

\* C13: At(i) signals out-of-range for every i < 0 and every i >= Len(), so
\* for At(-1), At(Len()) and At(0) on an empty list, and returns a value
\* without signalling for every i in [0, Len()).
C13_AtRange ==
  \A i \in (0 - 2)..(l.size + 2) :
    At(l, mem, i).panic = IF i < 0 \/ i >= l.size THEN "range" ELSE "none"

\* a list emptied by Delete: At(0) and At(-1) are out of range
C13_Witness ==
  /\ last.op = "Delete" /\ last.ret = TRUE
  /\ l.size = 0
  /\ At(l, mem, 0).panic = "range"
  /\ At(l, mem, 0 - 1).panic = "range"

\* C14: DeleteAt(i) with i < 0 or i >= Len() signals out-of-range before any
\* mutation: size, level and every next and width entry are as before.
C14_DeleteAtRange ==
  [][(last'.op = "DeleteAt" /\ (last'.arg < 0 \/ last'.arg >= l.size)) =>
       /\ last'.ret = "range"
       /\ l' = l
       /\ mem' = mem]_vars

\* DeleteAt(Len()) on a list of three on several levels
C14_Witness ==
  /\ last.op = "DeleteAt" /\ last.arg = l.size /\ last.ret = "range"
  /\ l.size = 3 /\ l.level >= 2

\* ------------------------------------------------------- claims, UpdateAt

\* v orders strictly after the element before index i and strictly before the
\* element after it, where there is one
Fits(e, i, v) ==
  /\ i = 0 \/ Cmp(e[i].val, v) < 0
  /\ i = Len(e) - 1 \/ Cmp(v, e[i + 2].val) < 0

\* C15: UpdateAt(i, v) for a valid index i succeeds exactly when v orders
\* strictly after the element at index i-1 and strictly before the element at
\* index i+1, a missing predecessor or successor imposing no constraint; in
\* every other case it signals an ordering violation and leaves the list
\* unchanged.
C15_UpdateAtOrdering ==
  [][\A i \in 0..(l.size - 1) : \A v \in Vals :
       (last'.op = "UpdateAt" /\ last'.at = i /\ last'.arg = v) =>
         /\ Fits(Elems2(l, mem), i, v) => last'.ret = "none"
         /\ ~Fits(Elems2(l, mem), i, v) =>
              (last'.ret = "previous" \/ last'.ret = "next") /\ mem' = mem /\ l' = l]_vars

\* C16: a successful UpdateAt(i, v) changes only the stored value of the node
\* of rank i: At(i) then returns v, At(j) for every j # i, Len(), level and
\* every next and width entry are unchanged, and At(0..Len()-1) is still
\* strictly increasing.
C16_UpdateAtFrame ==
  [][\A i \in 0..(l.size - 1) : \A v \in Vals :
       (last'.op = "UpdateAt" /\ last'.at = i /\ last'.arg = v /\ last'.ret = "none") =>
         /\ l' = l
         /\ DOMAIN mem' = DOMAIN mem
         /\ \A n \in DOMAIN mem :
              /\ mem'[n].next = mem[n].next
              /\ mem'[n].width = mem[n].width
              /\ mem'[n].val = IF n = Nodes(l, mem)[i + 1] THEN v ELSE mem[n].val
         /\ At2(l', mem', i) = [panic |-> "none", val |-> v]
         /\ \A j \in 0..(l.size - 1) : j # i => At2(l', mem', j) = At2(l, mem, j)
         /\ Increasing(Elems2(l', mem'))]_vars

\* the middle one of three elements, on several levels, got another payload
C16_Witness ==
  /\ last.op = "UpdateAt" /\ last.ret = "none"
  /\ last.at = 1 /\ last.arg = [k |-> 1, t |-> 1]
  /\ l.size = 3 /\ l.level >= 2
  /\ Elems2(l, mem) = Got(<<[k |-> 0, t |-> 0], [k |-> 1, t |-> 1], [k |-> MaxKey, t |-> 0]>>)

\* ------------------------------------------------------- claims, Reverse

\* C17: for any list l, r = l.Reverse() sorts the same elements in reversed
\* order: r.Len() = l.Len(), r.At(i) = l.At(l.Len()-1-i) for every valid i, and
\* r's Search finds every element stored in l.
C17_ReverseOrder ==
  LET r == Reverse(l)
  IN /\ SlLen(r) = SlLen(l)
     /\ \A i \in 0..(l.size - 1) :
          /\ At(r, mem, i) = At(l, mem, l.size - 1 - i)
          /\ RevSearch(r, mem, At(l, mem, i).val).ok

\* C18: on the list Reverse returns (Set/Unset variant), Get and Set complete
\* without a runtime error, whatever the value and the height of the new node.
C18_ReversedGetSet ==
  \A v \in Vals :
    /\ RevGet(Reverse2(l), mem, v).panic = "none"
    /\ \A newLevel \in 1..(MaxSize + 1) :
         RevSet(Reverse2(l), mem, v, newLevel).panic = "none"

\* ----------------------------------------------------------- claims, All

RECURSIVE Pairs(_, _, _)
\* (0, At(0)), ..., (n - 1, At(n - 1))
Pairs(h, m, n) ==
  IF n = 0 THEN <<>> ELSE Append(Pairs(h, m, n - 1), <<n - 1, At(h, m, n - 1).val>>)

\* C19: ranging over All() hands yield exactly the pairs (i, At(i)) for
\* i = 0, ..., Len()-1 in that order, up to and including the call on which
\* yield returns false, and none after it; the list is not modified.
C19_AllYieldsInOrder ==
  [][last'.op = "All" =>
       /\ last'.ret = Pairs(l, mem, Min(last'.stop, l.size))
       /\ l' = l
       /\ mem' = mem]_vars

\* a list of three elements and two levels, the consumer stopping at the second
C19_Witness ==
  /\ last.op = "All" /\ last.stop = 2
  /\ l.size = 3 /\ l.level >= 2
  /\ Len(last.ret) = 2
  /\ last.ret[2] = <<1, At(l, mem, 1).val>>

\* --------------------------------------------------------- claims, heaps

RECURSIVE Backwards(_)
Backwards(s) == IF s = <<>> THEN <<>> ELSE Append(Backwards(Tail(s)), Head(s))

\* how many times x is in s
Count(s, x) == Cardinality({i \in 1..Len(s) : s[i] = x})

\* the keys of the values ranging over PopAll() hands out
PopKeys(h, m) == [i \in 1..HeapLen(h, m) |-> PopAll(h, m)[i].k]

\* C20: Heap.Reverse() returns a heap that holds the same elements as the
\* original, has the same Len(), and pops them in the reverse of the order the
\* original pops them in.
C20_HeapReverse ==
  [][last'.op = "Reverse" =>
       /\ HeapLen(l', mem') = HeapLen(l, mem)
       /\ \A x \in Vals :
            Count(mem'[l'.impl].values, x) = Count(mem[l.impl].values, x)
       /\ PopKeys(l', mem') = Backwards(PopKeys(l, mem))]_vars

\* C21: for a min-heap built by New from any values and then pushed to,
\* popping until Len() = 0 through Drain hands out every element the heap was
\* given exactly once, in non-decreasing order under less, with the indexes
\* 0, 1, 2, ..., and leaves the heap empty; each direct Pop returns an element
\* that none of the others is less than.
C21_DrainInOrder ==
  [][/\ (last'.op = "Drain" /\ last'.stop > HeapLen(l, mem)) =>
          /\ Len(last'.out) = Len(abs)
          /\ \A i \in 1..Len(last'.out) : last'.out[i][1] = i - 1
          /\ \A i \in 1..(Len(last'.out) - 1) :
               ~Less(FALSE, last'.out[i + 1][2], last'.out[i][2])
          /\ \A x \in Vals :
               Cardinality({i \in 1..Len(last'.out) : last'.out[i][2] = x}) = Count(abs, x)
          /\ HeapLen(l', mem') = 0
     /\ (last'.op = "Pop" /\ last'.panic = "none") =>
          /\ Count(abs, last'.ret) > 0
          /\ \A i \in 1..Len(abs) : ~Less(FALSE, abs[i], last'.ret)
          /\ HeapLen(l', mem') = HeapLen(l, mem) - 1]_vars

\* a heap of MaxHeap elements with three different keys was drained to the end
C21_Witness ==
  /\ last.op = "Drain" /\ last.stop = MaxHeap + 1
  /\ Len(last.out) = MaxHeap
  /\ last.out[1][2].k < last.out[2][2].k /\ last.out[2][2].k < last.out[3][2].k
  /\ HeapLen(l, mem) = 0

\* ------------------------------------------------------------ claims, sets

\* C22 as stated: after New(values...) and any Set and Unset calls,
\* Contains(v) holds exactly when v is in the abstract set, Len() is its
\* cardinality, and Set of a present element and Unset of an absent one change
\* nothing.
C22_ContainsAbstract ==
  \A who \in Who :
    /\ \A v \in SetVals : SetsContains(mem, l[who], v) <=> v \in abs[who].has
    /\ SetsLen(mem, l[who]) = Cardinality(abs[who].has)

\* C22, amended: the same for the values that are equal to themselves; a NaN
\* is never contained, every NaN given to New or Set adds one to Len(), and
\* Unset(NaN) changes nothing.
C22_ContainsSelfEqual ==
  /\ \A who \in Who :
       /\ \A v \in SetVals :
            SetsContains(mem, l[who], v) <=> (v # NaN /\ v \in abs[who].has)
       /\ SetsLen(mem, l[who]) = Cardinality(abs[who].has \ {NaN}) + abs[who].nans
  /\ (last.op = "Set" /\ last.was) => last.same
  /\ (last.op = "Unset" /\ ~last.was) => last.same

\* Unset of a value that New or an earlier Set put into a set of two elements
C22_Witness ==
  /\ last.op = "Unset" /\ last.who = "s" /\ last.arg = 0 /\ last.was
  /\ ~SetsContains(mem, l.s, 0) /\ SetsContains(mem, l.s, 1)
  /\ SetsLen(mem, l.s) = 1

\* the elements of a set, as Equal's callers understand them: NaN is an
\* element like any other
Members(m) == m.keys \cup (IF m.nans > 0 THEN {NaN} ELSE {})

\* C23 as stated: s.Equal(t) is true exactly when s and t contain the same
\* elements, so Equal is symmetric and s.Equal(s.Clone()) holds; Equal,
\* Subset, Union and Intersection leave both operands unchanged.
C23_EqualSameElements ==
  [][/\ last'.op = "Equal" =>
          /\ last'.ok <=> Members(mem[l.s]) = Members(mem[l.t])
          /\ last'.ok <=> last'.back
     /\ last'.op = "Clone" => last'.eq
     /\ last'.op \in {"Equal", "Subset", "Union", "Intersection"} =>
          mem' = mem /\ l' = l]_vars

\* C23, amended: s.Equal(t) is true exactly when s and t hold the same
\* elements and no NaN; Equal is symmetric; s.Equal(s.Clone()) holds exactly
\* when s holds no NaN, the clone having the entries of s in any case; Equal,
\* Subset, Clone, Union and Intersection leave the operands unchanged.
C23_EqualNoNaN ==
  [][/\ last'.op = "Equal" =>
          /\ last'.ok <=> /\ mem[l.s].keys = mem[l.t].keys
                          /\ mem[l.s].nans = 0 /\ mem[l.t].nans = 0
          /\ last'.ok <=> last'.back
     /\ last'.op = "Clone" =>
          /\ last'.eq <=> mem[l[last'.who]].nans = 0
          /\ last'.out = mem[l[last'.who]]
     /\ last'.op \in {"Equal", "Subset", "Clone", "Union", "Intersection"} =>
          mem' = mem /\ l' = l]_vars

\* Equal answered true on two sets of two elements that were built differently
C23_Witness ==
  /\ last.op = "Equal" /\ last.ok
  /\ mem[l.s].keys = 0..MaxElem /\ mem[l.t].keys = 0..MaxElem
  /\ abs.s.nans = 0 /\ abs.t.nans = 0

\* ----------------------------------------- claims, Set/Unset variant (2)

\* the 0-based rank of a node of the level-0 chain
Rank(h, m, n) == Index(Nodes(h, m), n) - 1

RECURSIVE WidthSum(_, _, _, _)
\* the sum of width[level] over the first n of nodes
WidthSum(m, nodes, level, n) ==
  IF n = 0 THEN 0 ELSE WidthSum(m, nodes, level, n - 1) + m[nodes[n]].width[level + 1]

\* C24: after any Set, Unset and RemoveAt calls, for every level below the
\* list's level and every node n on that level's chain, the widths of the head
\* and of the nodes before n on the chain add up to the rank of n plus 1.
C24_WidthSums ==
  \A lv \in 0..(l.level - 1) :
    LET chain == Chain(mem, l.head, lv, Cardinality(DOMAIN mem))
        path == <<l.head>> \o chain
    IN \A j \in 1..Len(chain) :
         /\ chain[j] \in Range(Nodes(l, mem))
         /\ WidthSum(mem, path, lv, j) = Rank(l, mem, chain[j]) + 1

\* an Unset took a node out from under a jump: the head's level-1 jump now
\* lands on the second of two nodes
C24_Witness ==
  /\ last.op = "Unset" /\ last.ret = TRUE
  /\ l.size = 2 /\ l.level >= 2
  /\ mem[l.head].next[2] # Nil
  /\ mem[l.head].next[2] = Nodes(l, mem)[2]

\* ------------------------------------ claims, Insert/Delete variant (3)

\* the height of a node: the length of its next array
Height(m, n) == Len(m[n].next)

\* the greatest height among the stored nodes, 1 when there is none
MaxHeight(h, m) ==
  IF Nodes(h, m) = <<>> THEN 1
  ELSE CHOOSE x \in {Height(m, n) : n \in Range(Nodes(h, m))} :
         \A n \in Range(Nodes(h, m)) : Height(m, n) <= x

\* C25: in every reachable state level >= 1, the head's next and width arrays
\* have length level, and level is the greatest height of a stored node (1
\* for an empty list); so head.next[level-1] is nil only when level is 1.
C25_LevelIsMaxHeight ==
  /\ l.level >= 1
  /\ Len(mem[l.head].next) = l.level
  /\ Len(mem[l.head].width) = l.level
  /\ l.level = MaxHeight(l, mem)
  /\ mem[l.head].next[l.level] = Nil => l.level = 1

\* a Delete took out the only node of the top level, and nodes remain
C25_Witness ==
  /\ last.op = "Delete" /\ last.ret = TRUE
  /\ last.lv > l.level
  /\ l.size >= 1

\* C27: in every reachable state and at every level below level, the values
\* of the nodes on that level's chain are strictly increasing.
C27_ChainsIncreasing ==
  \A lv \in 0..(l.level - 1) :
    LET chain == Chain(mem, l.head, lv, Cardinality(DOMAIN mem))
    IN \A i, j \in 1..Len(chain) :
         i < j => Cmp(mem[chain[i]].val, mem[chain[j]].val) < 0

\* an Insert into a list whose level-1 chain then has two nodes
C27_Witness ==
  /\ last.op = "Insert" /\ last.ret >= 1
  /\ l.level >= 2
  /\ Len(Chain(mem, l.head, 1, Cardinality(DOMAIN mem))) >= 2

\* C28: in every reachable state every node on the chain of a level below
\* level is on the level-0 chain too, so that a node Delete or DeleteAt took
\* out is on no chain afterwards.
C28_ChainsWithinLevelZero ==
  \A lv \in 0..(l.level - 1) :
    Range(Chain(mem, l.head, lv, Cardinality(DOMAIN mem))) \subseteq Range(Nodes(l, mem))

\* a DeleteAt took out a node that was on the top level, and nodes remain on
\* a level above 0
C28_Witness ==
  /\ last.op = "DeleteAt" /\ last.ret = "none"
  /\ last.lv > l.level
  /\ l.level >= 2

\* ----------------------------------------- claims, Set/Unset variant (3)

\* C26: after any Set, Unset and RemoveAt calls, one that empties the list
\* included, level is at least 1 and is the number of the highest level that
\* still has a node (1 for an empty list): no empty top level is kept and no
\* level with a node is dropped.
C26_LevelTrimmed ==
  /\ l.level >= 1
  /\ l.level = MaxHeight(l, mem)

\* ------------------------------------ claims, Insert/Delete variant (4)

\* the node that holds a value equal to v
NodeOf(h, m, v) == CHOOSE n \in Range(Nodes(h, m)) : Cmp(m[n].val, v) = 0

\* C29: when Insert draws a height greater than the current level, by one or
\* by more, level is that height afterwards and at every new level
\* head.next is the new node, the new node's next is nil, and head.width plus
\* the new node's width is the new size.
C29_InsertGrows ==
  [][(last'.op = "Insert" /\ last'.ret > l.level) =>
       LET node == NodeOf(l', mem', last'.arg)
       IN /\ l'.level = last'.ret
          /\ l'.size = l.size + 1
          /\ \A lv \in l.level..(last'.ret - 1) :
               /\ mem'[l'.head].next[lv + 1] = node
               /\ mem'[node].next[lv + 1] = Nil
               /\ mem'[l'.head].width[lv + 1] + mem'[node].width[lv + 1] = l'.size]_vars

\* the second element came with height 3 into a list of level 1
C29_Witness ==
  /\ last.op = "Insert" /\ last.ret = 3
  /\ l.size = 2 /\ l.level = 3
  /\ \E n \in Range(Nodes(l, mem)) : Height(mem, n) = 1

\* where an address of before the Insert is afterwards, the new node being
\* at q: nodes are numbered along the level-0 chain
Moved(n, q) == IF n >= q THEN n + 1 ELSE n

\* C30: an Insert that creates a node of height h changes width entries only
\* at the recorded predecessors and the new node: at every level from h up to
\* the old level the predecessor's width grows by exactly 1 and its next
\* stays, and the next and width entries that are not a predecessor's are
\* unchanged.
C30_InsertFrame ==
  [][(last'.op = "Insert" /\ last'.ret >= 1) =>
       LET q == NodeOf(l', mem', last'.arg)
           d == InsertDescend(mem, l.head, l.level - 1, last'.arg,
                              Rep(l.level, Nil), Rep(l.level, 0))
       IN \A n \in DOMAIN mem : \A lv \in 1..Len(mem[n].next) :
            LET wasNext == mem[n].next[lv]
                sameNext == mem'[Moved(n, q)].next[lv] =
                              (IF wasNext = Nil THEN Nil ELSE Moved(wasNext, q))
            IN IF lv <= l.level /\ d.updates[lv] = n
                 THEN lv > last'.ret =>
                        /\ mem'[Moved(n, q)].width[lv] = mem[n].width[lv] + 1
                        /\ sameNext
                 ELSE /\ mem'[Moved(n, q)].width[lv] = mem[n].width[lv]
                      /\ sameNext]_vars

\* a node of height 1 came between two nodes under a jump of an upper level
C30_Witness ==
  /\ last.op = "Insert" /\ last.ret = 1
  /\ l.size = 3 /\ l.level >= 2
  /\ NodeOf(l, mem, last.arg) = Nodes(l, mem)[2]
  /\ \E lv \in 2..l.level : \E n \in DOMAIN mem :
       Len(mem[n].width) >= lv /\ mem[n].width[lv] >= 2

\* C31: the height drawn for a node inserted into a list of size n is at
\* least 1 and at most bitlen(n+1) + 1 whatever the random word (1 or 2 on an
\* empty list), the new node's arrays have that length, and the height of a
\* node never changes while it is in the list.
C31_HeightDrawnAndKept ==
  [][/\ \A h \in randomLevel(l) :
          /\ 1 <= h /\ h <= BitLen(l.size + 1) + 1
          /\ l.size = 0 => h \in {1, 2}
     /\ (last'.op = "Insert" /\ last'.ret >= 1) =>
          LET node == NodeOf(l', mem', last'.arg)
          IN /\ Len(mem'[node].next) = last'.ret
             /\ Len(mem'[node].width) = last'.ret
     /\ \A n \in Range(Nodes(l, mem)) :
          Holds(l', mem', mem[n].val) =>
            LET kept == NodeOf(l', mem', mem[n].val)
            IN /\ Len(mem'[kept].next) = Len(mem[n].next)
               /\ Len(mem'[kept].width) = Len(mem[n].width)]_vars

\* the third element came with the greatest height a list of two allows,
\* next to a node of height 1
C31_Witness ==
  /\ last.op = "Insert" /\ last.ret = BitLen(l.size) + 1
  /\ l.size = 3
  /\ \E n \in Range(Nodes(l, mem)) : Height(mem, n) = 1


\* ------------------------------------ claims, Insert/Delete variant (5)

\* the rank of a successor, that of nil being the size
RankOrSize(h, m, n) == IF n = Nil THEN h.size ELSE Rank(h, m, n)

\* C33: in every reachable state and at every level below level, the head's
\* width is the rank of the head's successor and the width of every node on
\* the level's chain is the rank of its successor less its own rank, the rank
\* of nil being size; the head's width at level 0 is 0, and every node's
\* width is 1 at level 0 and at least 1 at every level it has.
C33_WidthsAreRankDistances ==
  /\ \A lv \in 0..(l.level - 1) :
       /\ mem[l.head].width[lv + 1] = RankOrSize(l, mem, mem[l.head].next[lv + 1])
       /\ \A n \in Range(Chain(mem, l.head, lv, Cardinality(DOMAIN mem))) :
            mem[n].width[lv + 1] =
              RankOrSize(l, mem, mem[n].next[lv + 1]) - Rank(l, mem, n)
  /\ mem[l.head].width[1] = 0
  /\ \A n \in Range(Nodes(l, mem)) :
       /\ mem[n].width[1] = 1
       /\ \A lv \in 1..Len(mem[n].width) : mem[n].width[lv] >= 1

\* three elements, the first and the last of them on level 1 with the
\* second under the jump between them, and the first not the head's successor
\* on level 2
C33_Witness ==
  /\ l.size = 3 /\ l.level = 3
  /\ Chain(mem, l.head, 1, 3) = <<Nodes(l, mem)[1], Nodes(l, mem)[3]>>
  /\ mem[Nodes(l, mem)[1]].width[2] = 2
  /\ mem[l.head].width[3] = 2


\* C34: for every reachable list and every i in [0, Len()), DeleteAt(i) and
\* Delete(At(i)) record the same predecessors and leave the same structure:
\* the same size, level and head arrays and the same next and width entries
\* of every node; and the structure a DeleteAt step leaves is the one
\* Delete of the value at that index would have left.
C34_DeleteAtIsDeleteOfAt ==
  [][/\ \A i \in 0..(l.size - 1) :
          LET val == At(l, mem, i).val
              byRank == DeleteAtDescend(mem, l.head, 0, l.level - 1, i, Rep(l.level, Nil))
              byVal == DeleteDescend(mem, l.head, l.level - 1, val, Rep(l.level, Nil))
          IN /\ byRank.updates = byVal.updates
             /\ DeleteAt(l, mem, i).panic = "none"
             /\ Delete(l, mem, val).found
             /\ DeleteAt(l, mem, i).h = Delete(l, mem, val).h
             /\ DeleteAt(l, mem, i).m = Delete(l, mem, val).m
     /\ (last'.op = "DeleteAt" /\ last'.ret = "none") =>
          /\ l' = Delete(l, mem, last'.was).h
          /\ mem' = Delete(l, mem, last'.was).m]_vars

\* a DeleteAt took the middle one of three elements, a node of the top level
\* that was not alone on the level below
C34_Witness ==
  /\ last.op = "DeleteAt" /\ last.ret = "none" /\ last.arg = 1
  /\ last.lv > l.level
  /\ l.size = 2 /\ l.level = 2
  /\ Len(Chain(mem, l.head, 1, 2)) >= 1


\* C35: in every reachable state, a list whose level exceeds
\* bitlen(size+1) + 1 after deletions included, the level Search starts its
\* descent at is a level the head has, and Search returns for every value
\* what a descent started at the top level returns, which is the stored value
\* when one compares equal.
C35_SearchEntryLevel ==
  /\ SearchEntry(l) \in 0..(Len(mem[l.head].next) - 1)
  /\ \A v \in DeepVals :
       /\ Search(l, mem, v) = SearchFrom(l, mem, v, l.level - 1)
       /\ Search(l, mem, v).ok = RefHas(abs, v)
  /\ last.op = "Search" =>
       /\ last.entry = Min(l.level - 1, BitLen(l.size + 1))
       /\ last.out = SearchFrom(l, mem, last.val, l.level - 1)

\* Search found the last element of a list whose top level is above the level
\* the descent starts at
C35_Witness ==
  /\ last.op = "Search" /\ last.out.ok
  /\ l.size = 2 /\ l.level = 4
  /\ last.entry < l.level - 1
  /\ last.val = At(l, mem, 1).val


\* C38: two runs of the same sequence of Insert, Delete and DeleteAt calls
\* that differ only in the heights randomLevel returns agree after every step
\* on Len(), on At(i) for every i, an index out of range included, and on
\* Search(v) for every v, and the calls fail in the one run when they fail in
\* the other.
C38_HeightsNotObservable ==
  /\ SlLen(l) = SlLen(abs.h)
  /\ \A i \in (0 - 1)..l.size : At(l, mem, i) = At(abs.h, abs.m, i)
  /\ \A v \in Vals : Search(l, mem, v) = Search(abs.h, abs.m, v)
  /\ last.op \in {"Delete", "DeleteAt"} => last.other = IF last.op = "Delete" THEN last.found ELSE last.panic

\* after a Delete the runs hold the same two elements in lists of different
\* levels, one of them flat
C38_Witness ==
  /\ last.op = "Delete" /\ last.found
  /\ l.size = 2 /\ l.level = 1 /\ abs.h.level = 3
  /\ Height(abs.m, Nodes(abs.h, abs.m)[1]) # Height(abs.m, Nodes(abs.h, abs.m)[2])


\* ------------------------------------------------- claims, keyed variant

\* C32: for every reachable list, every assignment of node heights and every
\* i in [0, Len()), i = 0 included, At(i) returns the key and the value of
\* the node of rank i, the first node having rank 0.
C32_KeyedAtReturnsRank ==
  \A i \in 0..(l.size - 1) :
    KAt(l, mem, i) = [panic |-> "none", key |-> abs[i + 1].k, val |-> abs[i + 1].t]

\* ------------------------- claims, Set/Unset variant with options

\* C36: for every configured LogP >= 1 and every list reached by Set, Unset
\* and RemoveAt calls on distinct values, Get(v) returns (v, true) for every
\* stored v: the level Get starts its descent at hides no stored element.
C36_GetFindsStoredAnyLogP ==
  \A i \in 1..Len(abs) : Get(l, mem, abs[i]) = [val |-> abs[i], ok |-> TRUE]


\* ------------------------------------------ claims, a list and its view

\* C37: for a list and the view Reverse returned while the list was empty,
\* under every interleaving of Insert, Delete and DeleteAt calls through the
\* two handles, the size of each handle is the number of nodes on the level-0
\* chain of its head and the level of each handle is the length of the head's
\* arrays, and no call indexes past the head's arrays.
C37_HandlesAgreeWithHead ==
  /\ \A h \in {l, abs} :
       /\ h.size = Len(Chain(mem, h.head, 0, Cardinality(DOMAIN mem)))
       /\ h.level = Len(mem[h.head].next)
       /\ h.level = Len(mem[h.head].width)
  /\ last.panic # "index"


====
